---- MODULE Spec2Model ----
(***************************************************************************)
(* Verification model of the execution engine of robinmaple/trading-bot.   *)
(*                                                                         *)
(* Components, each with its own specification over the shared variables:  *)
(*   SpecSizing  - TradingManager.adjust_quantity_for_capital and          *)
(*                 _calculate_safe_quantity (core/trading/manager.py)      *)
(*   SpecRisk    - RiskMonitor (core/risk/risk_monitor.py)                 *)
(*   SpecManager - the run loop of core/trading_manager.py with its        *)
(*                 RiskMonitor and TradingPlanManager                      *)
(*   SpecBracket - BracketOrder of core/execution/bracket_order.py         *)
(*   SpecCycle   - the run loop of core/trading/manager.py: the capital    *)
(*                 lock, the buying-power snapshot, plan admission         *)
(*   SpecVerify  - TradingManager._verify_broker_execution (and            *)
(*                 SpecVerifyLive, the same under fair scheduling)         *)
(*   SpecPlanStore - TradingPlan of core/trading/plan.py and its file      *)
(*   SpecExec    - TradingManager._execute_plan_safely with verification,  *)
(*                 persistence and rollback, and verify_active_orders      *)
(*                                                                         *)
(* Conventions.  Money and prices are whole currency units (integers).     *)
(* A fraction such as risk_of_capital is a pair <<num, den>>.  Python's    *)
(* int(x) truncates toward zero and math.ceil rounds up; both are modelled *)
(* on exact rationals.  Modules of the repository refer to each other by   *)
(* slightly different names (plan['stop'] / plan['stop_loss'],             *)
(* OrderStatus / OrderLifecycle, config.get / config.<field>); a name is   *)
(* resolved to the member that plays its role.  Collaborators (broker,     *)
(* price client, relational store) are modelled by the evident meaning of  *)
(* each call: a statement sent to the store takes effect when executed.    *)
(***************************************************************************)
EXTENDS Integers, Sequences, FiniteSets, TLC

\* ------------------------------------------------------------------ bounds
MaxCapital == 12
MaxPrice == 5
MaxPnl == 500
MaxDay == 1
MaxMonth == 1
MaxExecuteCalls == 2
MaxCycles == 2
MaxPolls == 12
MaxSubmits == 2
MaxReconciles == 2

\* ----------------------------------------------------------- arithmetic
Min(a, b) == IF a <= b THEN a ELSE b

Max0(a) == IF a >= 0 THEN a ELSE 0

Abs(a) == IF a >= 0 THEN a ELSE -a

\* Python int(a / b) for b > 0: truncation toward zero.
TruncDiv(a, b) == IF a >= 0 THEN a \div b ELSE -((-a) \div b)

\* Python math.ceil(a / b) for b > 0.
CeilDiv(a, b) == -((-a) \div b)

\* ------------------------------------------------------------- sizing
\* Variant of the sizing that does not bound the quantity by what the
\* buying power can afford.
adjust_quantity_unbounded(buying_power, entry_price, stop_loss_price, risk_of_capital, available_quantity_ratio) ==
    IF entry_price <= stop_loss_price THEN 0
    ELSE LET risk_per_share == entry_price - stop_loss_price
             ideal_quantity == TruncDiv(buying_power * risk_of_capital[1], risk_of_capital[2] * risk_per_share)
         IN  IF ideal_quantity <= 0 THEN 0 ELSE ideal_quantity

\* Variant of the sizing whose acceptance threshold is rounded down.
adjust_quantity_floor_threshold(buying_power, entry_price, stop_loss_price, risk_of_capital, available_quantity_ratio) ==
    IF entry_price <= stop_loss_price THEN 0
    ELSE LET risk_per_share == entry_price - stop_loss_price
             ideal_quantity == TruncDiv(buying_power * risk_of_capital[1], risk_of_capital[2] * risk_per_share)
         IN  IF ideal_quantity <= 0 THEN 0
             ELSE LET max_affordable_quantity == TruncDiv(buying_power, entry_price)
                      quantity == Min(ideal_quantity, max_affordable_quantity)
                  IN  IF quantity < TruncDiv(ideal_quantity * available_quantity_ratio[1], available_quantity_ratio[2])
                      THEN 0 ELSE quantity

\* TradingManager.adjust_quantity_for_capital
adjust_quantity_for_capital(buying_power, entry_price, stop_loss_price, risk_of_capital, available_quantity_ratio) ==
    IF entry_price <= stop_loss_price THEN 0
    ELSE LET risk_per_share == entry_price - stop_loss_price
             ideal_quantity == TruncDiv(buying_power * risk_of_capital[1], risk_of_capital[2] * risk_per_share)
         IN  IF ideal_quantity <= 0 THEN 0
             ELSE LET max_affordable_quantity == TruncDiv(buying_power, entry_price)
                      quantity == Min(ideal_quantity, max_affordable_quantity)
                  IN  IF quantity < CeilDiv(ideal_quantity * available_quantity_ratio[1], available_quantity_ratio[2])
                      THEN 0 ELSE quantity

\* TradingManager._calculate_safe_quantity, with the bracket's prices and the
\* configuration passed explicitly.
calculate_safe_quantity(bp, entry_price, stop_loss_price, risk_of_capital, available_quantity_ratio) ==
    IF bp <= 0 THEN 0
    ELSE Min(adjust_quantity_for_capital(bp, entry_price, stop_loss_price, risk_of_capital, available_quantity_ratio),
             TruncDiv(bp, entry_price))

\* ---------------------------------------------------------------- state
VARIABLES
    sz_in,          \* sizing: the inputs of one sizing call
    sz_fn,          \* sizing: which function was called ("none" before the call)
    sz_q,           \* sizing: the returned quantity
    period_data,    \* RiskMonitor.period_data: period -> [pnl, breached, last_reset]
    now,            \* the clock: [day, month, late]
    rm_lock,        \* RiskMonitor._lock: "free", or "deadlocked" by a nested acquire
    rm_ret,         \* the latest is_limit_breached call: period, result, and whether it
                    \* followed an earlier true result for that period with no reset since
    rm_seen,        \* period -> a call returned true since the period's last reset
    tm_pc,          \* trading_manager.TradingManager.run: position in the loop
    market_open,    \* TradingHours.is_market_open() at the current time
    orders,         \* TradingPlanManager.orders: sequence of order records
    tm_todo,        \* _execute_orders: indices of get_active_orders() still to visit
    active_positions, \* TradingManager.active_positions: set of symbols
    tm_gate,        \* outcome of the latest _pre_trade_checks
    tm_event,       \* the latest order evaluation / placement of _execute_orders
    tm_stale,       \* symbols whose order was expired when the current cycle began
    bo,             \* execution.BracketOrder: its fields and its broker configuration
    bo_pc,          \* BracketOrder.execute: "idle" or the broker call it awaits
    bo_fill_pc,     \* BracketOrder.on_entry_filled: "idle" or awaiting the take-profit call
    bo_broker,      \* orders the brokerage has accepted for the bracket, per leg
    bo_calls,       \* number of execute() calls made
    cy_pc,          \* trading.manager.TradingManager.run / _process_plans: position
    capital_lock,   \* TradingManager._capital_lock is held
    broker_call,    \* the order_client call in flight ("none" when there is none)
    remaining_bp,   \* TradingManager.remaining_bp
    cy_snapshot,    \* remaining_bp as computed at the start of the current cycle
    cy_admitted,    \* sum of entry_price * quantity admitted in the current cycle
    positions,      \* table positions: rows [symbol, quantity, entry_price], one per symbol
    executed_trades, \* table executed_trades: planned_trade_ids with a 'filled' row
    cy_todo,        \* _process_plans: planned_trade_ids of active_plans still to visit
    cy_bracket,     \* the bracket being executed: [plan, quantity, current_price]
    cy_open,        \* _should_trade() at the current time
    cy_cfg,         \* TradingConfig (and the accounts row): account_id, dry_run, bp_override, ...
    cy_event,       \* the latest admitted plan and the number admitted in the current cycle
    cy_cycles,      \* number of completed passes of the run loop
    vf_pc,          \* _verify_broker_execution: "loop" (testing the deadline), "done"
    vf_elapsed,     \* seconds since start_time
    vf_polls,       \* get_order_status calls made by this verification
    vf_status,      \* the latest answer ("raise" when the call raised)
    vf_result,      \* the return value: "none" until it returns, then "true" / "false"
    tp_plans,       \* TradingPlan.plans: symbol -> plan record
    tp_executed,    \* TradingPlan.executed_plans
    fs,             \* the files path, path.bak and path.tmp: [state, doc] each
    ps_event,       \* the latest plan-store operation, with the target file before a save
    ps_saved,       \* the store as it was at the latest successful save_to_file
    ex_pc,          \* _execute_plan_safely: "idle" or the call it awaits
    ex_cfg,         \* TradingConfig of the executing manager: dry_run
    ex_cur,         \* the plan being executed: [symbol, quantity]
    ex_active,      \* TradingManager.active_orders: the symbols tracked as open
    ex_calls,       \* broker calls made so far: [submit, cancel]
    ex_ret,         \* return value of the _execute_plan_safely that ran last ("none" if it has not returned or a reconciliation ran since)
    ex_event,       \* what that execution ran into
    ex_recon,       \* the latest verify_active_orders: [n, statuses observed]
    ex_open,        \* the broker's book: symbol -> orders accepted and neither filled, cancelled nor rejected
    rm_op,          \* the latest operation a client made on the RiskMonitor ("none" at rest)
    px_ticks,       \* pricing: the list of PriceTicks handed to _select_best_price
    px_providers,   \* pricing: MultiProviderPriceService.providers in dict order, each with
                    \* the outcome of its get_price
    px_results,     \* pricing: outcomes of the services CompositePriceService may call, in order
    px_fn,          \* pricing: which function was called ("none" before the call)
    px_ret,         \* pricing: what it returned: [k, tick] with k "none" (not called), "None", "tick",
                    \* "price" (a bare price, in tick.price) or "raise"
    latest_prices,  \* MultiProviderPriceService._latest_prices[symbol]: <<>> or <<tick>>
    bk_plan,        \* orders.BracketOrder.from_plan: its arguments [side, entry, stop, take_profit, current_price]
    bk,             \* the orders.BracketOrder built from bk_plan
    bk_pc,          \* "plan", then "built" (from_plan returned), "sized", "done"; "raised" if from_plan raised
    bk_ret,         \* OrderExecutor.execute_bracket: [k, orders] with k "none", "raise" or "orders"
    sd_loop,        \* which run() the task executes: "trading.manager" or "trading_manager"
    sd_pc,          \* where the task is: "start", a point it is suspended or blocked at, "stopped"
    sd_cancel,      \* cancellation of the task has been requested
    sd_cycles,      \* passes of the while loop started so far
    sd_yields,      \* times the task has been suspended in an await so far
    cl_remaining    \* minutes the trading session in progress still has (0: no session in progress)

szVars == <<sz_in, sz_fn, sz_q>>

rmVars == <<period_data, now, rm_lock, rm_ret, rm_seen>>

tmVars == <<tm_pc, market_open, orders, tm_todo, active_positions, tm_gate, tm_event, tm_stale>>

boVars == <<bo, bo_pc, bo_fill_pc, bo_broker, bo_calls>>

cyVars == <<cy_pc, capital_lock, broker_call, remaining_bp, cy_snapshot, cy_admitted, positions,
            executed_trades, cy_todo, cy_bracket, cy_open, cy_cfg, cy_event, cy_cycles>>

vfVars == <<vf_pc, vf_elapsed, vf_polls, vf_status, vf_result>>

psVars == <<tp_plans, tp_executed, fs, ps_event, ps_saved>>

exVars == <<ex_pc, ex_cfg, ex_cur, ex_active, ex_calls, ex_ret, ex_event, ex_recon, ex_open>>

rdVars == <<rm_op>>

pxVars == <<px_ticks, px_providers, px_results, px_fn, px_ret, latest_prices>>

bkVars == <<bk_plan, bk, bk_pc, bk_ret>>

sdVars == <<sd_loop, sd_pc, sd_cancel, sd_cycles, sd_yields>>

clVars == <<cl_remaining>>

auxVars == <<rdVars, pxVars, bkVars, sdVars, clVars>>

vars == <<sz_in, sz_fn, sz_q, period_data, now, rm_lock, rm_ret, rm_seen,
          tm_pc, market_open, orders, tm_todo, active_positions, tm_gate, tm_event, tm_stale,
          bo, bo_pc, bo_fill_pc, bo_broker, bo_calls,
          cy_pc, capital_lock, broker_call, remaining_bp, cy_snapshot, cy_admitted, positions,
          executed_trades, cy_todo, cy_bracket, cy_open, cy_cfg, cy_event, cy_cycles,
          vf_pc, vf_elapsed, vf_polls, vf_status, vf_result,
          tp_plans, tp_executed, fs, ps_event, ps_saved,
          ex_pc, ex_cfg, ex_cur, ex_active, ex_calls, ex_ret, ex_event, ex_recon, ex_open,
          rm_op, px_ticks, px_providers, px_results, px_fn, px_ret, latest_prices,
          bk_plan, bk, bk_pc, bk_ret, sd_loop, sd_pc, sd_cancel, sd_cycles, sd_yields, cl_remaining>>

\* ------------------------------------------- components left at rest
\* Each specification exercises one component and holds the others at rest.
Periods == {"daily", "weekly", "monthly"}

SzOff ==
    /\ sz_in = [bp |-> 0, entry |-> 1, stop |-> 1, side |-> "Buy", rf |-> <<1, 1>>, ratio |-> <<1, 1>>]
    /\ sz_fn = "off"
    /\ sz_q = 0

RmOff ==
    /\ period_data = [p \in Periods |-> [pnl |-> 0, breached |-> FALSE, last_reset |-> [day |-> 0, month |-> 0, is_date |-> FALSE]]]
    /\ now = [day |-> 0, month |-> 0, late |-> FALSE]
    /\ rm_lock = "free"
    /\ rm_ret = [period |-> "daily", result |-> "none", after_true |-> FALSE]
    /\ rm_seen = [p \in Periods |-> FALSE]

TmOff ==
    /\ tm_pc = "off"
    /\ market_open = FALSE
    /\ orders = <<>>
    /\ tm_todo = <<>>
    /\ active_positions = {}
    /\ tm_gate = "none"
    /\ tm_event = [kind |-> "none", symbol |-> "", stale |-> FALSE, tick |-> 0]
    /\ tm_stale = {}

BoOff ==
    /\ bo = [lifecycle_status |-> "pending", order_type_status |-> "none",
             entry_order_id |-> FALSE, stop_loss_order_id |-> FALSE, take_profit_order_id |-> FALSE,
             entry_filled |-> FALSE, supports_native |-> FALSE, entry_type |-> "limit",
             breakout_trigger_price |-> FALSE]
    /\ bo_pc = "off"
    /\ bo_fill_pc = "off"
    /\ bo_broker = [entry |-> 0, stop_loss |-> 0, take_profit |-> 0]
    /\ bo_calls = 0

CyOff ==
    /\ cy_pc = "off"
    /\ capital_lock = FALSE
    /\ broker_call = "none"
    /\ remaining_bp = 0
    /\ cy_snapshot = 0
    /\ cy_admitted = 0
    /\ positions = {}
    /\ executed_trades = {}
    /\ cy_todo = <<>>
    /\ cy_bracket = [plan |-> 0, quantity |-> 0, current_price |-> 0]
    /\ cy_open = FALSE
    /\ cy_cfg = [account_id |-> FALSE, dry_run |-> TRUE, bp_override |-> 0,
                 risk_of_capital |-> <<1, 1>>, available_quantity_ratio |-> <<1, 1>>]
    /\ cy_event = [plan |-> 0, admitted |-> 0]
    /\ cy_cycles = 0

\* A file that does not exist.
NoFile == [state |-> "absent", doc |-> <<>>]

VfOff ==
    /\ vf_pc = "off"
    /\ vf_elapsed = 0
    /\ vf_polls = 0
    /\ vf_status = "none"
    /\ vf_result = "none"

PsOff ==
    /\ tp_plans = <<>>
    /\ tp_executed = {}
    /\ fs = [path |-> NoFile, bak |-> NoFile, tmp |-> NoFile]
    /\ ps_event = [kind |-> "none", before |-> NoFile]
    /\ ps_saved = [plans |-> <<>>, executed |-> {}, valid |-> FALSE]

ExOff ==
    /\ ex_pc = "off"
    /\ ex_cfg = [dry_run |-> TRUE]
    /\ ex_cur = [symbol |-> "", quantity |-> 0]
    /\ ex_active = {}
    /\ ex_calls = [submit |-> 0, cancel |-> 0]
    /\ ex_ret = "none"
    /\ ex_event = "none"
    /\ ex_recon = [n |-> 0, statuses |-> <<>>]
    /\ ex_open = <<>>

RdOff == rm_op = "none"

\* A PriceTick whose optional fields are <<>> (None) or <<value>>.
NoTick == [price |-> <<>>, bid |-> <<>>, ask |-> <<>>, provider |-> ""]

PxOff ==
    /\ px_ticks = <<>>
    /\ px_providers = <<>>
    /\ px_results = <<>>
    /\ px_fn = "none"
    /\ px_ret = [k |-> "none", tick |-> NoTick]
    /\ latest_prices = <<>>

\* A BracketOrder not yet built.
NoBracket == [entry_price |-> 0, take_profit_price |-> 0, stop_loss_price |-> 0, quantity |-> 0, side |-> ""]

BkOff ==
    /\ bk_plan = [side |-> "", entry |-> <<>>, stop |-> 0, take_profit |-> <<>>, current_price |-> <<>>]
    /\ bk = NoBracket
    /\ bk_pc = "off"
    /\ bk_ret = [k |-> "none", orders |-> <<>>]

SdOff ==
    /\ sd_loop = ""
    /\ sd_pc = "off"
    /\ sd_cancel = FALSE
    /\ sd_cycles = 0
    /\ sd_yields = 0

ClOff == cl_remaining = 0

AuxOff == RdOff /\ PxOff /\ BkOff /\ SdOff /\ ClOff

\* ------------------------------------------------------- SpecSizing
SzCapitals == (-2 .. MaxCapital) \cup {50, 500, 10000}

SzPrices == (1 .. MaxPrice) \cup {95, 100}

SzRiskFractions == {<<1, 100>>, <<1, 2>>, <<1, 1>>}

SzRatios == {<<1, 2>>, <<4, 5>>, <<1, 1>>}

SzInputs == [bp : SzCapitals, entry : SzPrices, stop : SzPrices, side : {"Buy", "Sell"},
             rf : SzRiskFractions, ratio : SzRatios]

InitSizing ==
    /\ sz_in \in SzInputs
    /\ sz_fn = "none"
    /\ sz_q = 0
    /\ RmOff /\ TmOff /\ BoOff /\ CyOff /\ VfOff /\ PsOff /\ ExOff /\ AuxOff

\* A direct call of adjust_quantity_for_capital.
SizeAdjust ==
    /\ sz_fn = "none"
    /\ sz_fn' = "adjust"
    /\ sz_q' = adjust_quantity_for_capital(sz_in.bp, sz_in.entry, sz_in.stop, sz_in.rf, sz_in.ratio)
    /\ UNCHANGED <<sz_in, rmVars, tmVars, boVars, cyVars, vfVars, psVars, exVars, auxVars>>

\* A call of _calculate_safe_quantity with remaining_bp = sz_in.bp.
SizeSafe ==
    /\ sz_fn = "none"
    /\ sz_fn' = "safe"
    /\ sz_q' = calculate_safe_quantity(sz_in.bp, sz_in.entry, sz_in.stop, sz_in.rf, sz_in.ratio)
    /\ UNCHANGED <<sz_in, rmVars, tmVars, boVars, cyVars, vfVars, psVars, exVars, auxVars>>

NextSizing == SizeAdjust \/ SizeSafe

SpecSizing == InitSizing /\ [][NextSizing]_vars

SzDone == sz_fn # "none"

SzLong == sz_in.entry > sz_in.stop /\ sz_in.stop > 0

SpecQuantity(remaining, entry, risk_per_share, rf, ratio) ==
    LET ideal == (remaining * rf[1]) \div (rf[2] * risk_per_share)
        affordable == remaining \div entry
        quantity == Min(ideal, affordable)
        minimum == CeilDiv(ideal * ratio[1], ratio[2])
    IN  IF quantity < minimum THEN 0 ELSE quantity

SzScenario(bp) ==
    /\ sz_in.bp = bp /\ sz_in.entry = 100 /\ sz_in.stop = 95
    /\ sz_in.rf = <<1, 100>> /\ sz_in.ratio = <<4, 5>>

C3_ShortSymmetric ==
    (SzDone /\ sz_in.side = "Sell" /\ sz_in.entry < sz_in.stop /\ sz_in.bp >= 0) =>
        sz_q = SpecQuantity(sz_in.bp, sz_in.entry, sz_in.stop - sz_in.entry, sz_in.rf, sz_in.ratio)

\* ------------------------------------------------------------ RiskMonitor
\* RiskMonitor.limits with the configured defaults (percent of account value).
limits(period) ==
    CASE period = "daily" -> 2
      [] period = "weekly" -> 5
      [] period = "monthly" -> 10

\* Variant of is_limit_breached that re-evaluates the loss on every call.
is_limit_breached_recomputed(pd, period, account_value) ==
    IF account_value = 0 THEN "raise"
    ELSE IF Abs(pd[period].pnl) * 100 >= limits(period) * account_value /\ pd[period].pnl < 0
         THEN "true" ELSE "false"

\* RiskMonitor.is_limit_breached, the returned value ("raise": the division by
\* a zero account value raises ZeroDivisionError).
is_limit_breached(pd, period, account_value) ==
    IF pd[period].breached THEN "true"
    ELSE IF account_value = 0 THEN "raise"
    ELSE IF Abs(pd[period].pnl) * 100 >= limits(period) * account_value /\ pd[period].pnl < 0
         THEN "true" ELSE "false"

\* Variant of the effect in which a call that finds no breach starts the
\* window afresh.
is_limit_breached_effect_resetting(pd, period, account_value) ==
    IF is_limit_breached(pd, period, account_value) = "true"
    THEN [pd EXCEPT ![period].breached = TRUE]
    ELSE [pd EXCEPT ![period].pnl = 0, ![period].breached = FALSE]

\* RiskMonitor.is_limit_breached, its effect on period_data: a fresh breach
\* sets the sticky flag.
is_limit_breached_effect(pd, period, account_value) ==
    IF is_limit_breached(pd, period, account_value) = "true"
    THEN [pd EXCEPT ![period].breached = TRUE]
    ELSE pd

\* RiskMonitor._is_after_close
is_after_close(dt) == FALSE

\* RiskMonitor._check_resets, the three boundary tests.  A last_reset written
\* by _reset_period is a datetime, which never equals now.date().
daily_due(pd, dt) ==
    (~pd["daily"].last_reset.is_date) \/ dt.day # pd["daily"].last_reset.day

weekly_due(pd, dt) == dt.day - pd["weekly"].last_reset.day >= 7

monthly_due(pd, dt) == dt.month # pd["monthly"].last_reset.month

\* _check_resets runs inside update_pnl's "with self._lock"; every reset it
\* decides on calls _reset_period, which acquires the same non-reentrant
\* threading.Lock again.
check_resets_acquires_lock(pd, dt) ==
    \/ (daily_due(pd, dt) /\ is_after_close(dt))
    \/ weekly_due(pd, dt)
    \/ monthly_due(pd, dt)

\* RiskMonitor._reset_period, the body under the lock.
reset_period(pd, period, dt) ==
    [pd EXCEPT ![period] = [pnl |-> 0, breached |-> FALSE,
                            last_reset |-> [day |-> dt.day, month |-> dt.month, is_date |-> FALSE]]]

PnlAmounts == {-250, 250}

AccountValues == {0, 1000, 10000}

Weekdays == {0, 6}

\* RiskMonitor.__init__ and _initialize_reset_dates on a day whose weekday is wd.
InitPeriodData(wd) ==
    [p \in Periods |->
        [pnl |-> 0, breached |-> FALSE,
         last_reset |-> CASE p = "daily" -> [day |-> 0, month |-> 0, is_date |-> TRUE]
                          [] p = "weekly" -> [day |-> 0 - wd, month |-> 0, is_date |-> FALSE]
                          [] p = "monthly" -> [day |-> 0, month |-> 0, is_date |-> FALSE]]]

InitRiskMonitor ==
    /\ \E wd \in Weekdays : period_data = InitPeriodData(wd)
    /\ now = [day |-> 0, month |-> 0, late |-> FALSE]
    /\ rm_lock = "free"
    /\ rm_ret = [period |-> "daily", result |-> "none", after_true |-> FALSE]
    /\ rm_seen = [p \in Periods |-> FALSE]

\* RiskMonitor.update_pnl(amount)
UpdatePnl(amount) ==
    /\ rm_lock = "free"
    /\ \A p \in Periods : Abs(period_data[p].pnl + amount) <= MaxPnl
    /\ IF check_resets_acquires_lock(period_data, now)
       THEN /\ rm_lock' = "deadlocked"
            /\ UNCHANGED period_data
       ELSE /\ period_data' = [p \in Periods |-> [period_data[p] EXCEPT !.pnl = @ + amount]]
            /\ UNCHANGED rm_lock
    /\ UNCHANGED <<now, rm_ret, rm_seen>>

\* Variant of the call that returns its result without recording a breach.
IsLimitBreachedNoFlag(period, account_value) ==
    /\ UNCHANGED period_data
    /\ UNCHANGED <<now, rm_lock>>

\* RiskMonitor.is_limit_breached(period, account_value), called by any client.
IsLimitBreached(period, account_value) ==
    /\ period_data' = is_limit_breached_effect(period_data, period, account_value)
    /\ UNCHANGED <<now, rm_lock>>

\* The same call, with its result recorded for the observer of the monitor.
IsLimitBreachedCall(period, account_value) ==
    /\ IsLimitBreached(period, account_value)
    /\ rm_ret' = [period |-> period,
                  result |-> is_limit_breached(period_data, period, account_value),
                  after_true |-> rm_seen[period]]
    /\ rm_seen' = [rm_seen EXCEPT ![period] = @ \/ is_limit_breached(period_data, period, account_value) = "true"]

\* RiskMonitor._reset_period(period), called directly (lock not yet held).
ResetPeriodCall(period) ==
    /\ rm_lock = "free"
    /\ period_data' = reset_period(period_data, period, now)
    /\ rm_seen' = [rm_seen EXCEPT ![period] = FALSE]
    /\ rm_ret' = [rm_ret EXCEPT !.result = "none", !.after_true = FALSE]
    /\ UNCHANGED <<now, rm_lock>>

\* The calendar advances by a day, possibly into the next month, to a time
\* of that day before (late = FALSE) or after the market close.
Tick ==
    /\ now.day < MaxDay
    /\ \E m \in {now.month, now.month + 1} :
          /\ m <= MaxMonth
          /\ \E l \in BOOLEAN : now' = [day |-> now.day + 1, month |-> m, late |-> l]
    /\ UNCHANGED <<period_data, rm_lock, rm_ret, rm_seen>>

InitRisk == InitRiskMonitor /\ SzOff /\ TmOff /\ BoOff /\ CyOff /\ VfOff /\ PsOff /\ ExOff /\ AuxOff

NextRisk ==
    \/ (\E a \in PnlAmounts : UpdatePnl(a)) /\ UNCHANGED <<szVars, tmVars, boVars, cyVars, vfVars, psVars, exVars, auxVars>>
    \/ (\E p \in Periods, av \in AccountValues : IsLimitBreachedCall(p, av)) /\ UNCHANGED <<szVars, tmVars, boVars, cyVars, vfVars, psVars, exVars, auxVars>>
    \/ (\E p \in Periods : ResetPeriodCall(p)) /\ UNCHANGED <<szVars, tmVars, boVars, cyVars, vfVars, psVars, exVars, auxVars>>
    \/ Tick /\ UNCHANGED <<szVars, tmVars, boVars, cyVars, vfVars, psVars, exVars, auxVars>>

SpecRisk == InitRisk /\ [][NextRisk]_vars

\* C4: a breach is sticky: an is_limit_breached call that follows a true
\* result for the same period, with no reset of that period in between,
\* returns true whatever the account value and the PnL are by then.
C4_BreachSticky == rm_ret.after_true => rm_ret.result = "true"

\* C4 witness: a call returned true after an earlier true although the
\* period's PnL has recovered to a gain.
C4_Witness ==
    /\ rm_ret.after_true /\ rm_ret.result = "true"
    /\ period_data[rm_ret.period].pnl > 0

\* ------------------------------------- trading_manager.TradingManager
\* TradingManager._get_account_value
AccountValue == 10000

\* Variant of the gate that examines the daily window only.
risk_checks_daily_only == <<"daily">>

\* The periods _pre_trade_checks examines, in its order.
risk_checks == <<"daily", "weekly", "monthly">>

\* The loop of _pre_trade_checks over risk_checks[i..]: the first breached
\* period ends it with False; is_limit_breached may set a sticky flag.
RECURSIVE pre_trade_risk(_, _)
pre_trade_risk(pd, i) ==
    IF i > Len(risk_checks) THEN [ok |-> TRUE, pd |-> pd]
    ELSE IF is_limit_breached(pd, risk_checks[i], AccountValue) = "true"
         THEN [ok |-> FALSE, pd |-> is_limit_breached_effect(pd, risk_checks[i], AccountValue)]
         ELSE pre_trade_risk(pd, i + 1)

\* Variant of get_active_orders that returns every order.
get_all_orders(os) == [i \in 1 .. Len(os) |-> i]

\* Indices, in order, of the members of os[1..n] that satisfy status = "active".
RECURSIVE active_prefix(_, _)
active_prefix(os, n) ==
    IF n = 0 THEN <<>>
    ELSE IF os[n].status = "active" THEN Append(active_prefix(os, n - 1), n)
         ELSE active_prefix(os, n - 1)

\* TradingPlanManager.get_active_orders (as indices into orders)
get_active_orders(os) == active_prefix(os, Len(os))

\* TradingPlanManager.mark_expired
mark_expired(os, symbol) ==
    [i \in 1 .. Len(os) |-> IF os[i].symbol = symbol THEN [os[i] EXCEPT !.status = "expired"] ELSE os[i]]

\* TradingPlanManager.mark_in_position
mark_in_position(os, symbol) ==
    [i \in 1 .. Len(os) |->
        IF os[i].symbol = symbol THEN [os[i] EXCEPT !.status = "in_position"]
        ELSE IF os[i].status = "active" THEN [os[i] EXCEPT !.status = "inactive"]
        ELSE os[i]]

\* Variant of reactivate_eligible_orders that also revives expired orders.
reactivate_expired_too(os) ==
    [i \in 1 .. Len(os) |->
        IF os[i].status \in {"inactive", "expired"} THEN [os[i] EXCEPT !.status = "active"] ELSE os[i]]

\* TradingPlanManager.reactivate_eligible_orders
reactivate_eligible_orders(os) ==
    [i \in 1 .. Len(os) |-> IF os[i].status = "inactive" THEN [os[i] EXCEPT !.status = "active"] ELSE os[i]]

\* TradingManager._should_trigger_order, given what the price service
\* returned: <<price>>, or <<>> for None (no price available).
should_trigger_order(order, current_price) ==
    IF current_price = <<>> THEN FALSE
    ELSE IF order.side = "Buy" THEN current_price[1] <= order.entry
    ELSE current_price[1] >= order.entry

\* The trading plan file: TradingPlanManager._prepare_order makes every
\* loaded order active.  Two entries share a symbol.
TmPlan ==
    << [symbol |-> "AAA", side |-> "Buy", entry |-> 10, status |-> "active"],
       [symbol |-> "BBB", side |-> "Sell", entry |-> 10, status |-> "active"],
       [symbol |-> "AAA", side |-> "Buy", entry |-> 9, status |-> "active"] >>

TmSymbols == {"AAA", "BBB"}

TmQuotes == {<<>>, <<9>>, <<11>>}

\* What place_with_config yields: an order report, None (nothing placed),
\* or an exception.
PlaceOutcomes == {"placed", "none", "raise"}

InitManager ==
    /\ period_data = InitPeriodData(0)
    /\ now = [day |-> 0, month |-> 0, late |-> FALSE]
    /\ rm_lock = "free"
    /\ rm_ret = [period |-> "daily", result |-> "none", after_true |-> FALSE]
    /\ rm_seen = [p \in Periods |-> FALSE]
    /\ SzOff /\ BoOff /\ CyOff /\ VfOff /\ PsOff /\ ExOff /\ AuxOff
    /\ tm_pc = "gate"
    /\ market_open \in BOOLEAN
    /\ orders = TmPlan
    /\ tm_todo = <<>>
    /\ active_positions = {}
    /\ tm_gate = "none"
    /\ tm_event = [kind |-> "none", symbol |-> "", stale |-> FALSE, tick |-> 0]
    /\ tm_stale = {}

\* The wall clock moves across a trading-hours boundary.
MarketClock ==
    /\ market_open' = ~market_open
    /\ UNCHANGED <<tm_pc, orders, tm_todo, active_positions, tm_gate, tm_event, tm_stale>>

\* TradingManager.run, the gate: _pre_trade_checks.  Outside trading hours
\* get_current_session() is None, so nothing is closed; on False the loop
\* sleeps and re-checks.
PreTradeChecks ==
    /\ tm_pc = "gate"
    /\ IF ~market_open
       THEN /\ tm_gate' = "closed"
            /\ UNCHANGED <<tm_pc, period_data>>
       ELSE LET r == pre_trade_risk(period_data, 1)
            IN  /\ period_data' = r.pd
                /\ tm_gate' = IF r.ok THEN "pass" ELSE "breach"
                /\ tm_pc' = IF r.ok THEN "monitor" ELSE "gate"
    /\ UNCHANGED <<market_open, orders, tm_todo, active_positions, tm_event, tm_stale>>
    /\ UNCHANGED <<now, rm_lock, rm_ret, rm_seen>>

\* TradingManager._monitor_prices: fetches a price per active order, keeps none.
MonitorPrices ==
    /\ tm_pc = "monitor"
    /\ tm_pc' = "execute"
    /\ UNCHANGED <<market_open, orders, tm_todo, active_positions, tm_gate, tm_event, tm_stale>>

\* TradingManager._execute_orders, entry: the list get_active_orders() returns.
ExecuteOrdersBegin ==
    /\ tm_pc = "execute"
    /\ tm_pc' = "orders"
    /\ tm_todo' = get_active_orders(orders)
    /\ tm_stale' = {orders[i].symbol : i \in {j \in 1 .. Len(orders) : orders[j].status = "expired"}}
    /\ UNCHANGED <<market_open, orders, active_positions, tm_gate, tm_event>>

\* TradingManager._execute_orders, one order of the list: _should_trigger_order
\* and, when it triggers, _place_bracket_order.
ExecuteOrder(current_price, outcome) ==
    /\ tm_pc = "orders"
    /\ tm_todo # <<>>
    /\ LET order == orders[Head(tm_todo)]
           triggered == should_trigger_order(order, current_price)
       IN  /\ tm_event' = [kind |-> IF triggered THEN "place" ELSE "eval",
                           symbol |-> order.symbol,
                           stale |-> order.symbol \in tm_stale,
                           tick |-> 1 - tm_event.tick]
           /\ IF triggered /\ outcome = "placed"
              THEN /\ orders' = mark_expired(orders, order.symbol)
                   /\ active_positions' = active_positions \cup {order.symbol}
              ELSE UNCHANGED <<orders, active_positions>>
    /\ tm_todo' = Tail(tm_todo)
    /\ UNCHANGED <<tm_pc, market_open, tm_gate, tm_stale>>

\* TradingManager._execute_orders, end of the list.
ExecuteOrdersEnd ==
    /\ tm_pc = "orders"
    /\ tm_todo = <<>>
    /\ tm_pc' = "manage"
    /\ UNCHANGED <<market_open, orders, tm_todo, active_positions, tm_gate, tm_event, tm_stale>>

\* TradingManager._manage_positions: closes the positions the exit policy
\* (_should_exit_position, left to the strategy) selects.
ManagePositions(exits) ==
    /\ tm_pc = "manage"
    /\ active_positions' = active_positions \ exits
    /\ tm_pc' = "gate"
    /\ UNCHANGED <<market_open, orders, tm_todo, tm_gate, tm_event, tm_stale>>

\* TradingPlanManager.mark_in_position(symbol), called by a client.
MarkInPosition(symbol) ==
    /\ orders' = mark_in_position(orders, symbol)
    /\ UNCHANGED <<tm_pc, market_open, tm_todo, active_positions, tm_gate, tm_event, tm_stale>>

\* TradingPlanManager.reactivate_eligible_orders(), called by a client.
ReactivateEligibleOrders ==
    /\ orders' = reactivate_eligible_orders(orders)
    /\ UNCHANGED <<tm_pc, market_open, tm_todo, active_positions, tm_gate, tm_event, tm_stale>>

NextManager ==
    \/ PreTradeChecks /\ UNCHANGED <<szVars, boVars, cyVars, vfVars, psVars, exVars, auxVars>>
    \/ MonitorPrices /\ UNCHANGED <<szVars, rmVars, boVars, cyVars, vfVars, psVars, exVars, auxVars>>
    \/ ExecuteOrdersBegin /\ UNCHANGED <<szVars, rmVars, boVars, cyVars, vfVars, psVars, exVars, auxVars>>
    \/ (\E q \in TmQuotes, o \in PlaceOutcomes : ExecuteOrder(q, o)) /\ UNCHANGED <<szVars, rmVars, boVars, cyVars, vfVars, psVars, exVars, auxVars>>
    \/ ExecuteOrdersEnd /\ UNCHANGED <<szVars, rmVars, boVars, cyVars, vfVars, psVars, exVars, auxVars>>
    \/ (\E x \in SUBSET active_positions : ManagePositions(x)) /\ UNCHANGED <<szVars, rmVars, boVars, cyVars, vfVars, psVars, exVars, auxVars>>
    \/ MarketClock /\ UNCHANGED <<szVars, rmVars, boVars, cyVars, vfVars, psVars, exVars, auxVars>>
    \/ (\E s \in TmSymbols : MarkInPosition(s)) /\ UNCHANGED <<szVars, rmVars, boVars, cyVars, vfVars, psVars, exVars, auxVars>>
    \/ ReactivateEligibleOrders /\ UNCHANGED <<szVars, rmVars, boVars, cyVars, vfVars, psVars, exVars, auxVars>>
    \/ (\E a \in PnlAmounts : UpdatePnl(a)) /\ UNCHANGED <<szVars, tmVars, boVars, cyVars, vfVars, psVars, exVars, auxVars>>
    \/ (\E p \in Periods, av \in AccountValues : IsLimitBreached(p, av)) /\ UNCHANGED <<szVars, tmVars, rm_ret, rm_seen, boVars, cyVars, vfVars, psVars, exVars, auxVars>>

SpecManager == InitManager /\ [][NextManager]_vars

\* A window is breached for the gate: its sticky flag is set, or its loss has
\* reached its limit percentage of the account value.
TmWindowBreached(p) ==
    \/ period_data[p].breached
    \/ (period_data[p].pnl < 0 /\ Abs(period_data[p].pnl) * 100 >= limits(p) * AccountValue)

TmGateOpen == market_open /\ \A p \in Periods : ~TmWindowBreached(p)

BoEntryTypes == {"limit", "stop_limit", "market"}

\* BracketOrder.__init__
InitBracketOrder ==
    /\ \E native \in BOOLEAN, et \in BoEntryTypes, trig \in BOOLEAN :
          bo = [lifecycle_status |-> "pending", order_type_status |-> "none",
                entry_order_id |-> FALSE, stop_loss_order_id |-> FALSE, take_profit_order_id |-> FALSE,
                entry_filled |-> FALSE, supports_native |-> native, entry_type |-> et,
                breakout_trigger_price |-> trig]
    /\ bo_pc = "idle"
    /\ bo_fill_pc = "idle"
    /\ bo_broker = [entry |-> 0, stop_loss |-> 0, take_profit |-> 0]
    /\ bo_calls = 0

\* BracketOrder.execute up to its first broker call.  An unsupported entry
\* type, or a stop-limit entry without trigger price, raises ValueError
\* after the status was set (execute is over).
Execute ==
    /\ bo_pc = "idle"
    /\ bo_calls < MaxExecuteCalls
    /\ bo_calls' = bo_calls + 1
    /\ bo' = [bo EXCEPT !.lifecycle_status = "placed"]
    /\ bo_pc' = IF bo.supports_native THEN "place_bracket_order"
                ELSE IF bo.entry_type = "limit" THEN "place_entry"
                ELSE IF bo.entry_type = "stop_limit" /\ bo.breakout_trigger_price THEN "place_stop_limit_entry"
                ELSE "idle"
    /\ UNCHANGED <<bo_fill_pc, bo_broker>>

\* _execute_native_bracket: brokerage.place_bracket_order returns or raises.
NativeBracketReturn(ok) ==
    /\ bo_pc = "place_bracket_order"
    /\ bo_pc' = "idle"
    /\ IF ok
       THEN /\ bo' = [bo EXCEPT !.entry_order_id = TRUE, !.stop_loss_order_id = TRUE,
                                !.take_profit_order_id = TRUE, !.lifecycle_status = "placed",
                                !.order_type_status = "entry"]
            /\ bo_broker' = [entry |-> bo_broker.entry + 1, stop_loss |-> bo_broker.stop_loss + 1,
                             take_profit |-> bo_broker.take_profit + 1]
       ELSE /\ bo' = [bo EXCEPT !.lifecycle_status = "failed"]
            /\ UNCHANGED bo_broker
    /\ UNCHANGED <<bo_fill_pc, bo_calls>>

\* _execute_limit_entry: brokerage.place_limit_order (entry) returns or raises.
LimitEntryReturn(ok) ==
    /\ bo_pc = "place_entry"
    /\ IF ok
       THEN /\ bo' = [bo EXCEPT !.entry_order_id = TRUE, !.order_type_status = "entry"]
            /\ bo_broker' = [bo_broker EXCEPT !.entry = @ + 1]
            /\ bo_pc' = "place_stop"
       ELSE /\ bo' = [bo EXCEPT !.lifecycle_status = "failed"]
            /\ bo_pc' = "idle"
            /\ UNCHANGED bo_broker
    /\ UNCHANGED <<bo_fill_pc, bo_calls>>

\* _execute_limit_entry: brokerage.place_stop_order returns or raises.
StopOrderReturn(ok) ==
    /\ bo_pc = "place_stop"
    /\ bo_pc' = "idle"
    /\ IF ok
       THEN /\ bo' = [bo EXCEPT !.stop_loss_order_id = TRUE]
            /\ bo_broker' = [bo_broker EXCEPT !.stop_loss = @ + 1]
       ELSE /\ bo' = [bo EXCEPT !.lifecycle_status = "failed"]
            /\ UNCHANGED bo_broker
    /\ UNCHANGED <<bo_fill_pc, bo_calls>>

\* _execute_stop_limit_entry: _place_stop_limit_entry raises NotImplementedError.
StopLimitEntryRaises ==
    /\ bo_pc = "place_stop_limit_entry"
    /\ bo_pc' = "idle"
    /\ bo' = [bo EXCEPT !.lifecycle_status = "failed"]
    /\ UNCHANGED <<bo_fill_pc, bo_broker, bo_calls>>

\* BracketOrder.on_entry_filled up to its broker call; the brokerage reports
\* a fill only for an entry order it has accepted.
OnEntryFilled ==
    /\ bo_fill_pc = "idle"
    /\ bo_broker.entry > 0
    /\ IF ~bo.entry_filled
       THEN /\ bo' = [bo EXCEPT !.entry_filled = TRUE, !.lifecycle_status = "filled"]
            /\ bo_fill_pc' = "place_take_profit"
       ELSE UNCHANGED <<bo, bo_fill_pc>>
    /\ UNCHANGED <<bo_pc, bo_broker, bo_calls>>

\* on_entry_filled: brokerage.place_limit_order (take-profit) returns or raises.
TakeProfitReturn(ok) ==
    /\ bo_fill_pc = "place_take_profit"
    /\ bo_fill_pc' = "idle"
    /\ IF ok
       THEN /\ bo' = [bo EXCEPT !.take_profit_order_id = TRUE, !.order_type_status = "profit_target"]
            /\ bo_broker' = [bo_broker EXCEPT !.take_profit = @ + 1]
       ELSE UNCHANGED <<bo, bo_broker>>
    /\ UNCHANGED <<bo_pc, bo_calls>>

InitBracket == InitBracketOrder /\ SzOff /\ RmOff /\ TmOff /\ CyOff /\ VfOff /\ PsOff /\ ExOff /\ AuxOff

NextBracket ==
    \/ Execute /\ UNCHANGED <<szVars, rmVars, tmVars, cyVars, vfVars, psVars, exVars, auxVars>>
    \/ (\E ok \in BOOLEAN : NativeBracketReturn(ok)) /\ UNCHANGED <<szVars, rmVars, tmVars, cyVars, vfVars, psVars, exVars, auxVars>>
    \/ (\E ok \in BOOLEAN : LimitEntryReturn(ok)) /\ UNCHANGED <<szVars, rmVars, tmVars, cyVars, vfVars, psVars, exVars, auxVars>>
    \/ (\E ok \in BOOLEAN : StopOrderReturn(ok)) /\ UNCHANGED <<szVars, rmVars, tmVars, cyVars, vfVars, psVars, exVars, auxVars>>
    \/ StopLimitEntryRaises /\ UNCHANGED <<szVars, rmVars, tmVars, cyVars, vfVars, psVars, exVars, auxVars>>
    \/ OnEntryFilled /\ UNCHANGED <<szVars, rmVars, tmVars, cyVars, vfVars, psVars, exVars, auxVars>>
    \/ (\E ok \in BOOLEAN : TakeProfitReturn(ok)) /\ UNCHANGED <<szVars, rmVars, tmVars, cyVars, vfVars, psVars, exVars, auxVars>>

SpecBracket == InitBracket /\ [][NextBracket]_vars

\* C7: Failed and Closed are terminal: once lifecycle_status is one of them,
\* no step changes it.
C7_TerminalStates ==
    [][bo.lifecycle_status \in {"failed", "closed"} => bo'.lifecycle_status = bo.lifecycle_status]_vars

\* C8: lifecycle_status becomes Placed only from Pending and Filled only
\* from Placed.
C8_LifecycleOrder ==
    [][ /\ (bo'.lifecycle_status = "placed" /\ bo.lifecycle_status # "placed") => bo.lifecycle_status = "pending"
        /\ (bo'.lifecycle_status = "filled" /\ bo.lifecycle_status # "filled") => bo.lifecycle_status = "placed" ]_vars

\* ----------------------------- trading.manager.TradingManager: the cycle
\* Table planned_trades of the configured account, in the order the query
\* returns it.  Plan 3 shares its symbol with plan 1, plan 4 has its entry
\* below its stop, plan 5 has expired, plan 6 lacks a price.
PlannedTrades ==
    << [planned_trade_id |-> 1, symbol |-> "AAA", entry_price |-> 3, stop_loss_price |-> 1, expired |-> FALSE, priced |-> TRUE],
       [planned_trade_id |-> 2, symbol |-> "BBB", entry_price |-> 2, stop_loss_price |-> 1, expired |-> FALSE, priced |-> TRUE],
       [planned_trade_id |-> 3, symbol |-> "AAA", entry_price |-> 2, stop_loss_price |-> 1, expired |-> FALSE, priced |-> TRUE],
       [planned_trade_id |-> 4, symbol |-> "CCC", entry_price |-> 2, stop_loss_price |-> 3, expired |-> FALSE, priced |-> TRUE],
       [planned_trade_id |-> 5, symbol |-> "DDD", entry_price |-> 2, stop_loss_price |-> 1, expired |-> TRUE, priced |-> TRUE],
       [planned_trade_id |-> 6, symbol |-> "EEE", entry_price |-> 2, stop_loss_price |-> 1, expired |-> FALSE, priced |-> FALSE] >>

CySymbols == <<"AAA", "BBB", "CCC", "DDD", "EEE">>

\* Buying power the broker may report.
TotalBps == {0, MaxCapital \div 2, MaxCapital}

\* Contents of table positions when the manager starts.
InitialPositions ==
    { {},
      {[symbol |-> "AAA", quantity |-> 1, entry_price |-> 3]},
      {[symbol |-> "BBB", quantity |-> MaxCapital, entry_price |-> 2]} }

CyRiskFractions == {<<1, 2>>, <<1, 1>>}

CyRatios == {<<1, 2>>, <<1, 1>>}

\* SELECT COALESCE(SUM(entry_price * quantity), 0) FROM positions
RECURSIVE used_bp_from(_, _)
used_bp_from(rows, symbols) ==
    IF symbols = <<>> THEN 0
    ELSE LET mine == {r \in rows : r.symbol = Head(symbols)}
             value == IF mine = {} THEN 0
                      ELSE LET r == CHOOSE x \in mine : TRUE IN r.entry_price * r.quantity
         IN  value + used_bp_from(rows, Tail(symbols))

used_bp(rows) == used_bp_from(rows, CySymbols)

\* The active_plans query: unexpired plans without a 'filled' execution.
active_plans(executed) ==
    SelectSeq([i \in 1 .. Len(PlannedTrades) |-> i],
              LAMBDA i : ~PlannedTrades[i].expired /\ PlannedTrades[i].planned_trade_id \notin executed)

\* INSERT ... ON CONFLICT(account_id, symbol) DO UPDATE SET quantity = quantity + excluded.quantity
upsert_position(rows, symbol, quantity, entry_price) ==
    IF \E r \in rows : r.symbol = symbol
    THEN {IF r.symbol = symbol THEN [r EXCEPT !.quantity = @ + quantity] ELSE r : r \in rows}
    ELSE rows \cup {[symbol |-> symbol, quantity |-> quantity, entry_price |-> entry_price]}

\* UPDATE positions SET quantity = quantity - ? WHERE symbol = ?
revert_position(rows, symbol, quantity) ==
    {IF r.symbol = symbol THEN [r EXCEPT !.quantity = @ - quantity] ELSE r : r \in rows}

\* Variant of the ledger update that leaves the remaining capital as it was.
deduct_bp_skipped(remaining, required_bp) == remaining

\* self.remaining_bp -= required_bp
deduct_bp(remaining, required_bp) == remaining - required_bp

\* TradingManager.__init__ with the stores it opens.
InitTradingManager ==
    /\ cy_pc = "run"
    /\ capital_lock = FALSE
    /\ broker_call = "none"
    /\ remaining_bp = 0
    /\ cy_snapshot = 0
    /\ cy_admitted = 0
    /\ positions \in InitialPositions
    /\ executed_trades = {}
    /\ cy_todo = <<>>
    /\ cy_bracket = [plan |-> 0, quantity |-> 0, current_price |-> 0]
    /\ cy_open \in BOOLEAN
    /\ \E acct \in BOOLEAN, dry \in BOOLEAN, ov \in {0, MaxCapital}, rf \in CyRiskFractions, ratio \in CyRatios :
          cy_cfg = [account_id |-> acct, dry_run |-> dry, bp_override |-> ov,
                    risk_of_capital |-> rf, available_quantity_ratio |-> ratio]
    /\ cy_event = [plan |-> 0, admitted |-> 0]
    /\ cy_cycles = 0

\* _should_trade() changes its answer as the clock passes.
MarketHours ==
    /\ cy_pc # "off"
    /\ cy_open' = ~cy_open
    /\ UNCHANGED <<cy_pc, capital_lock, broker_call, remaining_bp, cy_snapshot, cy_admitted, positions,
                   executed_trades, cy_todo, cy_bracket, cy_cfg, cy_event, cy_cycles>>

\* run: _should_trade() is false, sleep and continue.
RunSleep ==
    /\ cy_pc = "run"
    /\ cy_cycles < MaxCycles
    /\ ~cy_open
    /\ cy_cycles' = cy_cycles + 1
    /\ UNCHANGED <<cy_pc, capital_lock, broker_call, remaining_bp, cy_snapshot, cy_admitted, positions,
                   executed_trades, cy_todo, cy_bracket, cy_open, cy_cfg, cy_event>>

\* run: verify_active_orders() finds active_orders empty (the cycle never
\* adds to it); _process_plans takes the capital lock, returns when no
\* account is configured, and otherwise calls get_buying_power.
ProcessPlansBegin ==
    /\ cy_pc = "run"
    /\ cy_cycles < MaxCycles
    /\ cy_open
    /\ ~capital_lock
    /\ IF ~cy_cfg.account_id
       THEN /\ cy_cycles' = cy_cycles + 1
            /\ UNCHANGED <<cy_pc, capital_lock, broker_call>>
       ELSE /\ capital_lock' = TRUE
            /\ broker_call' = "get_buying_power"
            /\ cy_pc' = "get_buying_power"
            /\ UNCHANGED cy_cycles
    /\ UNCHANGED <<remaining_bp, cy_snapshot, cy_admitted, positions,
                   executed_trades, cy_todo, cy_bracket, cy_open, cy_cfg, cy_event>>

\* _process_plans steps 1-4: get_buying_power returns <<total_bp>> or raises
\* (<<>>, the bp_override fallback); the snapshot is taken; the market is
\* checked again; the active plans are read.
BuyingPowerReturn(result) ==
    /\ cy_pc = "get_buying_power"
    /\ LET total_bp == IF result = <<>> THEN cy_cfg.bp_override ELSE result[1]
           remaining == total_bp - used_bp(positions)
       IN  /\ remaining_bp' = remaining
           /\ cy_snapshot' = remaining
    /\ cy_admitted' = 0
    /\ cy_event' = [plan |-> 0, admitted |-> 0]
    /\ broker_call' = "none"
    /\ IF ~cy_open
       THEN /\ capital_lock' = FALSE
            /\ cy_pc' = "run"
            /\ cy_cycles' = cy_cycles + 1
            /\ UNCHANGED cy_todo
       ELSE /\ cy_todo' = active_plans(executed_trades)
            /\ cy_pc' = "plans"
            /\ UNCHANGED <<capital_lock, cy_cycles>>
    /\ UNCHANGED <<positions, executed_trades, cy_bracket, cy_open, cy_cfg>>

\* The for loop takes the next plan: a plan without prices is skipped, for
\* any other the quote is requested.
PlanNext ==
    /\ cy_pc = "plans"
    /\ cy_todo # <<>>
    /\ IF ~PlannedTrades[Head(cy_todo)].priced
       THEN cy_todo' = Tail(cy_todo) /\ UNCHANGED cy_pc
       ELSE cy_pc' = "get_price" /\ UNCHANGED cy_todo
    /\ UNCHANGED <<capital_lock, broker_call, remaining_bp, cy_snapshot, cy_admitted, positions,
                   executed_trades, cy_bracket, cy_open, cy_cfg, cy_event, cy_cycles>>

\* The for loop is over: _process_plans returns and releases the lock.
ProcessPlansEnd ==
    /\ cy_pc = "plans"
    /\ cy_todo = <<>>
    /\ capital_lock' = FALSE
    /\ cy_pc' = "run"
    /\ cy_cycles' = cy_cycles + 1
    /\ UNCHANGED <<broker_call, remaining_bp, cy_snapshot, cy_admitted, positions,
                   executed_trades, cy_todo, cy_bracket, cy_open, cy_cfg, cy_event>>

\* Last trade prices the price client may quote.
CyQuotes == {1, MaxPrice}

\* _get_valid_quote returns (<<lastTradePrice>>, or <<>> for None): price
\* validation, sizing, the BP check, and _execute_plan_with_db up to its
\* broker call; in dry-run the execution is recorded and the capital
\* deducted at once.
QuoteReturn(quote) ==
    /\ cy_pc = "get_price"
    /\ LET plan == PlannedTrades[Head(cy_todo)]
           valid == quote # <<>>
           quantity == calculate_safe_quantity(remaining_bp, plan.entry_price, plan.stop_loss_price,
                                               cy_cfg.risk_of_capital, cy_cfg.available_quantity_ratio)
           required_bp == plan.entry_price * quantity
       IN  IF ~valid \/ plan.entry_price <= plan.stop_loss_price \/ remaining_bp < required_bp
           THEN /\ cy_todo' = Tail(cy_todo)
                /\ cy_pc' = "plans"
                /\ UNCHANGED <<broker_call, remaining_bp, cy_admitted, executed_trades, cy_bracket, cy_event>>
           ELSE IF cy_cfg.dry_run
           THEN /\ executed_trades' = executed_trades \cup {plan.planned_trade_id}
                /\ remaining_bp' = deduct_bp(remaining_bp, required_bp)
                /\ cy_admitted' = cy_admitted + required_bp
                /\ cy_event' = [plan |-> plan.planned_trade_id, admitted |-> cy_event.admitted + 1]
                /\ cy_bracket' = [plan |-> plan.planned_trade_id, quantity |-> quantity, current_price |-> quote[1]]
                /\ cy_todo' = Tail(cy_todo)
                /\ cy_pc' = "plans"
                /\ UNCHANGED broker_call
           ELSE /\ cy_bracket' = [plan |-> plan.planned_trade_id, quantity |-> quantity, current_price |-> quote[1]]
                /\ broker_call' = "submit_bracket_order"
                /\ cy_pc' = "submit_bracket_order"
                /\ UNCHANGED <<remaining_bp, cy_admitted, executed_trades, cy_todo, cy_event>>
    /\ UNCHANGED <<capital_lock, cy_snapshot, positions, cy_open, cy_cfg, cy_cycles>>

SubmitOutcomes == {"success", "failure", "raise", "record_raise"}

\* Variant of the loop body in which a plan that raises ends the for loop.
SubmitReturnAbandoning(outcome) ==
    /\ cy_pc = "submit_bracket_order"
    /\ LET plan == PlannedTrades[Head(cy_todo)]
           required_bp == plan.entry_price * cy_bracket.quantity
       IN  IF outcome = "success"
           THEN /\ positions' = upsert_position(positions, plan.symbol, cy_bracket.quantity, plan.entry_price)
                /\ executed_trades' = executed_trades \cup {plan.planned_trade_id}
                /\ remaining_bp' = deduct_bp(remaining_bp, required_bp)
                /\ cy_admitted' = cy_admitted + required_bp
                /\ cy_event' = [plan |-> plan.planned_trade_id, admitted |-> cy_event.admitted + 1]
           ELSE IF outcome = "failure"
           THEN UNCHANGED <<positions, executed_trades, remaining_bp, cy_admitted, cy_event>>
           ELSE /\ positions' = revert_position(positions, plan.symbol, cy_bracket.quantity)
                /\ UNCHANGED <<executed_trades, remaining_bp, cy_admitted, cy_event>>
    /\ broker_call' = "none"
    /\ cy_todo' = IF outcome \in {"raise", "record_raise"} THEN <<>> ELSE Tail(cy_todo)
    /\ cy_pc' = "plans"
    /\ UNCHANGED <<capital_lock, cy_snapshot, cy_bracket, cy_open, cy_cfg, cy_cycles>>

\* _execute_plan_with_db steps 3-4 and the rest of the loop body:
\* submit_bracket_order returns success, returns failure, or raises; or it
\* returns success and recording the execution raises after the positions
\* row was written.  Either exception runs the except branch, which takes
\* the quantity off the positions row and re-raises into the for loop's own
\* except, which logs and continues.
SubmitReturn(outcome) ==
    /\ cy_pc = "submit_bracket_order"
    /\ LET plan == PlannedTrades[Head(cy_todo)]
           required_bp == plan.entry_price * cy_bracket.quantity
       IN  IF outcome = "success"
           THEN /\ positions' = upsert_position(positions, plan.symbol, cy_bracket.quantity, plan.entry_price)
                /\ executed_trades' = executed_trades \cup {plan.planned_trade_id}
                /\ remaining_bp' = deduct_bp(remaining_bp, required_bp)
                /\ cy_admitted' = cy_admitted + required_bp
                /\ cy_event' = [plan |-> plan.planned_trade_id, admitted |-> cy_event.admitted + 1]
           ELSE IF outcome = "failure"
           THEN UNCHANGED <<positions, executed_trades, remaining_bp, cy_admitted, cy_event>>
           ELSE IF outcome = "raise"
           THEN /\ positions' = revert_position(positions, plan.symbol, cy_bracket.quantity)
                /\ UNCHANGED <<executed_trades, remaining_bp, cy_admitted, cy_event>>
           ELSE /\ positions' = revert_position(upsert_position(positions, plan.symbol, cy_bracket.quantity,
                                                                 plan.entry_price),
                                                 plan.symbol, cy_bracket.quantity)
                /\ UNCHANGED <<executed_trades, remaining_bp, cy_admitted, cy_event>>
    /\ broker_call' = "none"
    /\ cy_todo' = Tail(cy_todo)
    /\ cy_pc' = "plans"
    /\ UNCHANGED <<capital_lock, cy_snapshot, cy_bracket, cy_open, cy_cfg, cy_cycles>>

InitCycle == InitTradingManager /\ SzOff /\ RmOff /\ TmOff /\ BoOff /\ VfOff /\ PsOff /\ ExOff /\ AuxOff

NextCycle ==
    \/ MarketHours /\ UNCHANGED <<szVars, rmVars, tmVars, boVars, vfVars, psVars, exVars, auxVars>>
    \/ RunSleep /\ UNCHANGED <<szVars, rmVars, tmVars, boVars, vfVars, psVars, exVars, auxVars>>
    \/ ProcessPlansBegin /\ UNCHANGED <<szVars, rmVars, tmVars, boVars, vfVars, psVars, exVars, auxVars>>
    \/ (\E r \in {<<>>} \cup {<<b>> : b \in TotalBps} : BuyingPowerReturn(r)) /\ UNCHANGED <<szVars, rmVars, tmVars, boVars, vfVars, psVars, exVars, auxVars>>
    \/ PlanNext /\ UNCHANGED <<szVars, rmVars, tmVars, boVars, vfVars, psVars, exVars, auxVars>>
    \/ ProcessPlansEnd /\ UNCHANGED <<szVars, rmVars, tmVars, boVars, vfVars, psVars, exVars, auxVars>>
    \/ (\E quote \in {<<>>} \cup {<<p>> : p \in CyQuotes} : QuoteReturn(quote)) /\ UNCHANGED <<szVars, rmVars, tmVars, boVars, vfVars, psVars, exVars, auxVars>>
    \/ (\E outcome \in SubmitOutcomes : SubmitReturn(outcome)) /\ UNCHANGED <<szVars, rmVars, tmVars, boVars, vfVars, psVars, exVars, auxVars>>

SpecCycle == InitCycle /\ [][NextCycle]_vars

C10_LockNotHeldAcrossBrokerCall == capital_lock => broker_call = "none"

verify_timeout == 10

\* await asyncio.sleep(1)  # Polling interval
polling_interval == 1

\* await asyncio.sleep(2) after a poll that raised
error_backoff == 2

\* Answers of order_client.get_order_status; "raise" is a call that raises.
OrderStatuses == {"pending", "accepted", "partially_filled", "filled", "canceled", "rejected", "raise"}

\* Whole seconds a get_order_status call may take.
NetworkDelays == {0, 1}

\* start_time = time.time()
VerifyStart ==
    /\ vf_pc' = "loop"
    /\ vf_elapsed' = 0
    /\ vf_polls' = 0
    /\ vf_status' = "none"
    /\ vf_result' = "none"

\* Variant of the loop pass that polls again without sleeping.
VerifyPollNoSleep(status, delay) ==
    /\ vf_pc = "loop"
    /\ vf_elapsed < verify_timeout
    /\ vf_polls < MaxPolls
    /\ vf_polls' = vf_polls + 1
    /\ vf_status' = status
    /\ vf_elapsed' = vf_elapsed + delay
    /\ IF status = "filled" THEN vf_result' = "true" /\ vf_pc' = "done"
       ELSE IF status \in {"canceled", "rejected"} THEN vf_result' = "false" /\ vf_pc' = "done"
       ELSE UNCHANGED <<vf_result, vf_pc>>

\* One pass of the while loop: the deadline has not passed, the status is
\* polled, and the loop returns or sleeps.
VerifyPoll(status, delay) ==
    /\ vf_pc = "loop"
    /\ vf_elapsed < verify_timeout
    /\ vf_polls < MaxPolls
    /\ vf_polls' = vf_polls + 1
    /\ vf_status' = status
    /\ IF status = "filled"
       THEN vf_result' = "true" /\ vf_pc' = "done" /\ vf_elapsed' = vf_elapsed + delay
       ELSE IF status \in {"canceled", "rejected"}
       THEN vf_result' = "false" /\ vf_pc' = "done" /\ vf_elapsed' = vf_elapsed + delay
       ELSE IF status = "raise"
       THEN vf_elapsed' = vf_elapsed + delay + error_backoff /\ UNCHANGED <<vf_result, vf_pc>>
       ELSE vf_elapsed' = vf_elapsed + delay + polling_interval /\ UNCHANGED <<vf_result, vf_pc>>

\* The while condition fails: "Verification timeout", return False.
VerifyTimeout ==
    /\ vf_pc = "loop"
    /\ vf_elapsed >= verify_timeout
    /\ vf_result' = "false"
    /\ vf_pc' = "done"
    /\ UNCHANGED <<vf_elapsed, vf_polls, vf_status>>

InitVerify ==
    /\ vf_pc = "loop"
    /\ vf_elapsed = 0
    /\ vf_polls = 0
    /\ vf_status = "none"
    /\ vf_result = "none"
    /\ SzOff /\ RmOff /\ TmOff /\ BoOff /\ CyOff /\ PsOff /\ ExOff /\ AuxOff

NextVerify ==
    \/ (\E status \in OrderStatuses, delay \in NetworkDelays : VerifyPoll(status, delay))
          /\ UNCHANGED <<szVars, rmVars, tmVars, boVars, cyVars, psVars, exVars, auxVars>>
    \/ VerifyTimeout /\ UNCHANGED <<szVars, rmVars, tmVars, boVars, cyVars, psVars, exVars, auxVars>>

SpecVerify == InitVerify /\ [][NextVerify]_vars

\* The event loop resumes the coroutine and every poll is answered.
SpecVerifyLive == SpecVerify /\ WF_vars(NextVerify)

Absent == [k |-> "absent", v |-> 0]

PyNone == [k |-> "None", v |-> 0]

PyBool(b) == [k |-> "bool", v |-> IF b THEN 1 ELSE 0]

PyNum(n) == [k |-> "num", v |-> n]

PyStr(t) == [k |-> "str", v |-> t]

\* Python truthiness, as plan.get('executed', False) is tested.
truthy(x) ==
    IF x.k = "bool" \/ x.k = "num" THEN x.v # 0
    ELSE x.k = "str"

PlanKeys == {"active", "executed", "executed_at", "execution_price", "executed_quantity", "committed_value"}

\* json.dump of one value.
json_dump_value(x) ==
    IF x.k = "None" THEN [k |-> "null", v |-> 0]
    ELSE IF x.k = "bool" THEN [k |-> IF x.v = 1 THEN "true" ELSE "false", v |-> 0]
    ELSE IF x.k = "num" THEN [k |-> "number", v |-> x.v]
    ELSE IF x.k = "str" THEN [k |-> "string", v |-> x.v]
    ELSE x

\* json.load of one value.
json_load_value(j) ==
    IF j.k = "null" THEN PyNone
    ELSE IF j.k = "true" THEN PyBool(TRUE)
    ELSE IF j.k = "false" THEN PyBool(FALSE)
    ELSE IF j.k = "number" THEN PyNum(j.v)
    ELSE IF j.k = "string" THEN PyStr(j.v)
    ELSE j

\* json.dump(self.plans, f): the document written for the plans.
json_dump(plans) == [s \in DOMAIN plans |-> [key \in PlanKeys |-> json_dump_value(plans[s][key])]]

\* json.load(f)
json_load(doc) == [s \in DOMAIN doc |-> [key \in PlanKeys |-> json_load_value(doc[s][key])]]

\* Variant of the status loading that does not rebuild executed_plans.
load_execution_status_flags_only(plans) ==
    [plans |-> [s \in DOMAIN plans |->
                   LET plan == plans[s]
                       defaulted == IF plan["active"] = Absent THEN [plan EXCEPT !["active"] = PyBool(TRUE)] ELSE plan
                   IN  IF truthy(plan["executed"]) THEN [defaulted EXCEPT !["active"] = PyBool(FALSE)] ELSE defaulted],
     executed |-> {}]

\* TradingPlan.__init__ / _load_execution_status on a dict of plans.
load_execution_status(plans) ==
    [plans |-> [s \in DOMAIN plans |->
                   LET plan == plans[s]
                       defaulted == IF plan["active"] = Absent THEN [plan EXCEPT !["active"] = PyBool(TRUE)] ELSE plan
                   IN  IF truthy(plan["executed"]) THEN [defaulted EXCEPT !["active"] = PyBool(FALSE)] ELSE defaulted],
     executed |-> {s \in DOMAIN plans : truthy(plans[s]["executed"])}]

\* plan.get('active', True)
plan_active(plan) == IF plan["active"] = Absent THEN TRUE ELSE truthy(plan["active"])

\* TradingPlan.get_active_plans: the symbols of the plans returned.
get_active_plans(plans, executed) == {s \in DOMAIN plans : plan_active(plans[s]) /\ s \notin executed}

\* Variant of mark_executed that leaves the plan's 'active' key as it is.
mark_executed_keeps_active(store, symbol, price, quantity, t) ==
    [plans |-> [store.plans EXCEPT ![symbol] =
                   [@ EXCEPT !["executed"] = PyBool(TRUE),
                             !["executed_at"] = PyStr(t), !["execution_price"] = PyNum(price),
                             !["executed_quantity"] = PyNum(quantity), !["committed_value"] = PyNum(price * quantity)]],
     executed |-> store.executed \cup {symbol}]

\* TradingPlan.mark_executed on a symbol of the store, stamped at time t.
mark_executed(store, symbol, price, quantity, t) ==
    [plans |-> [store.plans EXCEPT ![symbol] =
                   [@ EXCEPT !["active"] = PyBool(FALSE), !["executed"] = PyBool(TRUE),
                             !["executed_at"] = PyStr(t), !["execution_price"] = PyNum(price),
                             !["executed_quantity"] = PyNum(quantity), !["committed_value"] = PyNum(price * quantity)]],
     executed |-> store.executed \cup {symbol}]

\* TradingPlan.reset_execution_status
reset_execution_status(store, symbol) ==
    IF symbol \in store.executed
    THEN [plans |-> [store.plans EXCEPT ![symbol] =
                        [@ EXCEPT !["active"] = PyBool(TRUE), !["executed"] = PyBool(FALSE),
                                  !["executed_at"] = PyNone, !["execution_price"] = PyNone]],
          executed |-> store.executed \ {symbol}]
    ELSE store

\* A file holding a complete document, and one cut short by a failed write.
CompleteFile(doc) == [state |-> "complete", doc |-> doc]

PartialFile == [state |-> "partial", doc |-> <<>>]

\* How a save_to_file call can go: the step that raises ("none" when all
\* succeed; a failed copy or write may leave its destination cut short) and
\* how the restoring copy of the handler goes.
SaveOutcomes ==
    [failing_step : {"none", "backup", "backup_partial", "write", "replace"},
     restore : {"ok", "fail", "partial"}]

\* TradingPlan.save_to_file: the files after the call.
save_to_file(files, plans, outcome) ==
    LET backed_up == IF files.path.state = "absent" THEN files
                     ELSE IF outcome.failing_step = "backup" THEN files
                     ELSE IF outcome.failing_step = "backup_partial" THEN [files EXCEPT !.bak = PartialFile]
                     ELSE [files EXCEPT !.bak = files.path]
        backup_raised == files.path.state # "absent" /\ outcome.failing_step \in {"backup", "backup_partial"}
        written == IF outcome.failing_step = "write" THEN [backed_up EXCEPT !.tmp = PartialFile]
                   ELSE [backed_up EXCEPT !.tmp = CompleteFile(json_dump(plans))]
        replaced == [written EXCEPT !.path = written.tmp, !.tmp = NoFile]
        failed == IF backup_raised THEN backed_up ELSE written
        restored == IF failed.bak.state = "absent" \/ outcome.restore = "fail" THEN failed
                    ELSE IF outcome.restore = "partial" THEN [failed EXCEPT !.path = PartialFile]
                    ELSE [failed EXCEPT !.path = failed.bak]
    IN  IF backup_raised \/ outcome.failing_step \in {"write", "replace"} THEN restored ELSE replaced

\* save_to_file raises with this outcome on these files.
save_raises(files, outcome) ==
    \/ outcome.failing_step \in {"write", "replace"}
    \/ files.path.state # "absent" /\ outcome.failing_step \in {"backup", "backup_partial"}

PsSymbols == {"AAA", "BBB"}

\* A plan as the user wrote it: no execution keys yet.
FreshPlan == [key \in PlanKeys |-> Absent]

\* Plan files the manager may find at start.
InitialDocs ==
    { [s \in PsSymbols |-> FreshPlan] }
    \cup
    { [s \in PsSymbols |-> IF s = "AAA"
                           THEN [FreshPlan EXCEPT !["executed"] = [k |-> "true", v |-> 0],
                                                  !["active"] = [k |-> "true", v |-> 0]]
                           ELSE [FreshPlan EXCEPT !["active"] = [k |-> "false", v |-> 0]]] }

PsPrices == {2}

PsQuantities == {3}

PsTimestamps == {1}

\* TradingPlan.load_from_file: the store built from the file at path (an
\* absent file gives the empty store).
load_from_file(files) ==
    IF files.path.state = "absent" THEN load_execution_status(<<>>)
    ELSE load_execution_status(json_load(files.path.doc))

InitTradingPlan ==
    /\ \E doc \in InitialDocs :
          /\ fs = [path |-> CompleteFile(doc), bak |-> NoFile, tmp |-> NoFile]
          /\ tp_plans = load_from_file(fs).plans
          /\ tp_executed = load_from_file(fs).executed
    /\ ps_event = [kind |-> "none", before |-> NoFile]
    /\ ps_saved = [plans |-> <<>>, executed |-> {}, valid |-> FALSE]

\* A symbol no plan of the store has.
UnknownSymbol == "ZZZ"

\* TradingPlan.mark_executed(symbol, price, quantity); ValueError for a
\* symbol that is not in self.plans.
MarkExecuted(symbol, price, quantity, t) ==
    /\ IF symbol \notin DOMAIN tp_plans
       THEN /\ ps_event' = [kind |-> "mark_executed_raised", before |-> NoFile]
            /\ UNCHANGED <<tp_plans, tp_executed>>
       ELSE /\ LET store == mark_executed([plans |-> tp_plans, executed |-> tp_executed], symbol, price, quantity, t)
               IN  tp_plans' = store.plans /\ tp_executed' = store.executed
            /\ ps_event' = [kind |-> "mark_executed", before |-> NoFile]
    /\ UNCHANGED <<fs, ps_saved>>

\* TradingPlan.reset_execution_status(symbol)
ResetExecutionStatus(symbol) ==
    /\ symbol \in DOMAIN tp_plans
    /\ LET store == reset_execution_status([plans |-> tp_plans, executed |-> tp_executed], symbol)
       IN  tp_plans' = store.plans /\ tp_executed' = store.executed
    /\ ps_event' = [kind |-> "reset_execution_status", before |-> NoFile]
    /\ UNCHANGED <<fs, ps_saved>>

\* TradingPlan.save_to_file(path)
SaveToFile(outcome) ==
    /\ fs' = save_to_file(fs, tp_plans, outcome)
    /\ IF save_raises(fs, outcome)
       THEN /\ ps_event' = [kind |-> "save_failed", before |-> fs.path]
            /\ ps_saved' = [ps_saved EXCEPT !.valid = FALSE]
       ELSE /\ ps_event' = [kind |-> "saved", before |-> fs.path]
            /\ ps_saved' = [plans |-> tp_plans, executed |-> tp_executed, valid |-> TRUE]
    /\ UNCHANGED <<tp_plans, tp_executed>>

\* TradingPlan.load_from_file(path) replaces the store (a file cut short
\* makes json.load raise).
LoadFromFile ==
    /\ fs.path.state # "partial"
    /\ tp_plans' = load_from_file(fs).plans
    /\ tp_executed' = load_from_file(fs).executed
    /\ ps_event' = [kind |-> "load", before |-> NoFile]
    /\ UNCHANGED <<fs, ps_saved>>

InitPlanStore == InitTradingPlan /\ SzOff /\ RmOff /\ TmOff /\ BoOff /\ CyOff /\ VfOff /\ ExOff /\ AuxOff

NextPlanStore ==
    \/ (\E symbol \in PsSymbols \cup {UnknownSymbol}, price \in PsPrices, quantity \in PsQuantities, t \in PsTimestamps :
            MarkExecuted(symbol, price, quantity, t))
          /\ UNCHANGED <<szVars, rmVars, tmVars, boVars, cyVars, vfVars, exVars, auxVars>>
    \/ (\E symbol \in PsSymbols : ResetExecutionStatus(symbol))
          /\ UNCHANGED <<szVars, rmVars, tmVars, boVars, cyVars, vfVars, exVars, auxVars>>
    \/ (\E outcome \in SaveOutcomes : SaveToFile(outcome))
          /\ UNCHANGED <<szVars, rmVars, tmVars, boVars, cyVars, vfVars, exVars, auxVars>>
    \/ LoadFromFile /\ UNCHANGED <<szVars, rmVars, tmVars, boVars, cyVars, vfVars, exVars, auxVars>>

SpecPlanStore == InitPlanStore /\ [][NextPlanStore]_vars

\* C17: after a save_to_file call that failed, the file at the target path
\* holds exactly the complete content it held before the call.
C17_FailedSaveKeepsFile == ps_event.kind = "save_failed" => fs.path = ps_event.before

\* C18: loading the file written by a successful save_to_file yields the
\* plan records, the executed set and the active plans the store had when
\* it was saved.
C18_RoundTrip ==
    (ps_event.kind = "load" /\ ps_saved.valid) =>
        /\ tp_plans = ps_saved.plans
        /\ tp_executed = ps_saved.executed
        /\ get_active_plans(tp_plans, tp_executed) = get_active_plans(ps_saved.plans, ps_saved.executed)

\* A store with one executed plan and one plan reset after execution was
\* saved and loaded back.
C18_Witness ==
    /\ ps_event.kind = "load"
    /\ ps_saved.valid
    /\ "AAA" \in tp_executed
    /\ tp_plans["AAA"]["execution_price"] = PyNum(2)
    /\ "BBB" \notin tp_executed
    /\ tp_plans["BBB"]["execution_price"] = PyNone
    /\ tp_plans["BBB"]["executed_quantity"] = PyNum(3)

\* ------------- TradingManager._execute_plan_safely and reconciliation
\* self.plan is the manager's TradingPlan, stored at config/trading_plan.json.
\* if self.config.dry_run, in a manager that never takes the dry-run branch.
is_dry_run_never(cfg) == FALSE

\* if self.config.dry_run
is_dry_run(cfg) == cfg.dry_run

\* How the file write of _persist_executed_plan can go: "ok", or the step
\* that raises.
PersistOutcomes == {"ok", "write", "replace"}

\* _persist_executed_plan after its mark_executed: temp write, os.replace.
persist_executed_plan(files, plans, outcome) ==
    IF outcome = "write" THEN [files EXCEPT !.tmp = PartialFile]
    ELSE IF outcome = "replace" THEN [files EXCEPT !.tmp = CompleteFile(json_dump(plans))]
    ELSE [files EXCEPT !.path = CompleteFile(json_dump(plans)), !.tmp = NoFile]

\* bracket.entry_price of the plans executed, the price the broker reports
\* for a fill, the sized quantity, and the time stamp of mark_executed.
ExEntryPrice == 2

ExFilledPrice == 3

ExQuantity == 3

ExNow == 1

InitExecution ==
    /\ fs = [path |-> CompleteFile([s \in PsSymbols |-> FreshPlan]), bak |-> NoFile, tmp |-> NoFile]
    /\ tp_plans = load_from_file(fs).plans
    /\ tp_executed = load_from_file(fs).executed
    /\ ps_event = [kind |-> "none", before |-> NoFile]
    /\ ps_saved = [plans |-> <<>>, executed |-> {}, valid |-> FALSE]
    /\ ex_pc = "idle"
    /\ ex_cfg \in [dry_run : BOOLEAN]
    /\ ex_cur = [symbol |-> "", quantity |-> 0]
    /\ ex_active = {}
    /\ ex_calls = [submit |-> 0, cancel |-> 0]
    /\ ex_ret = "none"
    /\ ex_event = "none"
    /\ ex_recon = [n |-> 0, statuses |-> <<>>]
    /\ ex_open = [s \in PsSymbols |-> 0]
    /\ VfOff

\* The except branch of _execute_plan_safely: _revert_plan_status calls
\* cancel_order.
BeginRevert ==
    /\ ex_pc' = "cancel_order"
    /\ ex_calls' = [ex_calls EXCEPT !.cancel = @ + 1]

\* _execute_plan_safely(plan, bracket) for an active plan, up to its first
\* await.  Dry-run: _handle_dry_run_execution marks the plan executed, tracks
\* the bracket and persists; a failed persist raises into the except branch.
\* Live: submit_bracket_order is called.
ExecutePlanSafely(symbol, outcome) ==
    /\ ex_pc = "idle"
    /\ symbol \in get_active_plans(tp_plans, tp_executed)
    /\ ex_calls.submit < MaxSubmits
    /\ ex_calls.cancel < MaxSubmits
    /\ ex_cur' = [symbol |-> symbol, quantity |-> ExQuantity]
    /\ IF is_dry_run(ex_cfg)
       THEN LET store == mark_executed([plans |-> tp_plans, executed |-> tp_executed],
                                       symbol, ExEntryPrice, ExQuantity, ExNow)
            IN  /\ tp_plans' = store.plans
                /\ tp_executed' = store.executed
                /\ ex_active' = ex_active \cup {symbol}
                /\ fs' = persist_executed_plan(fs, store.plans, outcome)
                /\ IF outcome = "ok"
                   THEN ex_ret' = "true" /\ ex_event' = "dry_run_fill" /\ UNCHANGED <<ex_pc, ex_calls>>
                   ELSE ex_ret' = "none" /\ ex_event' = "persistence_failed" /\ BeginRevert
       ELSE /\ ex_pc' = "submit_bracket_order"
            /\ ex_calls' = [ex_calls EXCEPT !.submit = @ + 1]
            /\ ex_ret' = "none"
            /\ ex_event' = "none"
            /\ UNCHANGED <<tp_plans, tp_executed, ex_active, fs>>
    /\ UNCHANGED <<ps_event, ps_saved, ex_cfg, ex_recon, ex_open, vfVars>>

\* submit_bracket_order returns a truthy or a falsy result, or raises; an
\* accepted order is open at the broker from then on.
SafelySubmitReturn(result) ==
    /\ ex_pc = "submit_bracket_order"
    /\ IF result = "accepted"
       THEN VerifyStart /\ ex_pc' = "verify" /\ UNCHANGED <<ex_ret, ex_event, ex_calls>>
       ELSE IF result = "rejected"
       THEN ex_pc' = "idle" /\ ex_ret' = "false" /\ ex_event' = "broker_rejected" /\ UNCHANGED <<ex_calls, vfVars>>
       ELSE ex_ret' = "none" /\ ex_event' = "submit_raised" /\ BeginRevert /\ UNCHANGED vfVars
    /\ ex_open' = IF result = "accepted" THEN [ex_open EXCEPT ![ex_cur.symbol] = @ + 1] ELSE ex_open
    /\ UNCHANGED <<psVars, ex_cfg, ex_cur, ex_active, ex_recon>>

\* One step of _verify_broker_execution inside the execution.
SafelyVerifyStep ==
    /\ ex_pc = "verify"
    /\ \/ \E status \in OrderStatuses, delay \in NetworkDelays : VerifyPoll(status, delay)
       \/ VerifyTimeout
    /\ UNCHANGED <<psVars, exVars>>

\* _verify_broker_execution has returned: on False, "Failed verification",
\* return False; on True, get_execution_price is called.  The order has left
\* the broker's book if the status seen last was filled, canceled or
\* rejected, and is still open after a timeout.
SafelyVerifyReturn ==
    /\ ex_pc = "verify"
    /\ vf_pc = "done"
    /\ IF vf_result = "true"
       THEN ex_pc' = "get_execution_price" /\ UNCHANGED <<ex_ret, ex_event>>
       ELSE /\ ex_pc' = "idle"
            /\ ex_ret' = "false"
            /\ ex_event' = IF vf_status \in {"canceled", "rejected"} THEN "order_canceled" ELSE "verification_timeout"
    /\ vf_pc' = "off" /\ vf_elapsed' = 0 /\ vf_polls' = 0 /\ vf_status' = "none" /\ vf_result' = "none"
    /\ ex_open' = IF vf_status \in {"filled", "canceled", "rejected"}
                  THEN [ex_open EXCEPT ![ex_cur.symbol] = Max0(@ - 1)] ELSE ex_open
    /\ UNCHANGED <<psVars, ex_cfg, ex_cur, ex_active, ex_calls, ex_recon>>

\* get_execution_price returns a price or nothing, or raises; with a price
\* _persist_executed_plan marks the plan executed and writes the file.
ExecutionPriceReturn(result, outcome) ==
    /\ ex_pc = "get_execution_price"
    /\ IF result = "price"
       THEN LET store == mark_executed([plans |-> tp_plans, executed |-> tp_executed],
                                       ex_cur.symbol, ExFilledPrice, ex_cur.quantity, ExNow)
            IN  /\ tp_plans' = store.plans
                /\ tp_executed' = store.executed
                /\ fs' = persist_executed_plan(fs, store.plans, outcome)
                /\ IF outcome = "ok"
                   THEN ex_pc' = "idle" /\ ex_ret' = "true" /\ ex_event' = "filled" /\ UNCHANGED ex_calls
                   ELSE ex_ret' = "none" /\ ex_event' = "persistence_failed_after_fill" /\ BeginRevert
       ELSE IF result = "none"
       THEN /\ ex_pc' = "idle" /\ ex_ret' = "false" /\ ex_event' = "no_execution_price"
            /\ UNCHANGED <<tp_plans, tp_executed, fs, ex_calls>>
       ELSE /\ ex_ret' = "none" /\ ex_event' = "price_raised" /\ BeginRevert
            /\ UNCHANGED <<tp_plans, tp_executed, fs>>
    /\ UNCHANGED <<ps_event, ps_saved, ex_cfg, ex_cur, ex_active, ex_recon, ex_open, vfVars>>

\* _revert_plan_status after cancel_order returned or raised: on return the
\* plan is reset, untracked and saved (a failing save is logged); then
\* _execute_plan_safely returns False.
CancelReturn(ok, outcome) ==
    /\ ex_pc = "cancel_order"
    /\ ex_pc' = "idle"
    /\ ex_ret' = "false"
    /\ IF ok
       THEN LET store == reset_execution_status([plans |-> tp_plans, executed |-> tp_executed], ex_cur.symbol)
            IN  /\ tp_plans' = store.plans
                /\ tp_executed' = store.executed
                /\ ex_active' = ex_active \ {ex_cur.symbol}
                /\ fs' = save_to_file(fs, store.plans, outcome)
       ELSE UNCHANGED <<tp_plans, tp_executed, ex_active, fs>>
    /\ ex_open' = IF ok THEN [ex_open EXCEPT ![ex_cur.symbol] = 0] ELSE ex_open
    /\ UNCHANGED <<ps_event, ps_saved, ex_cfg, ex_cur, ex_calls, ex_event, ex_recon, vfVars>>

\* verify_active_orders with the status the broker gives for each tracked
\* symbol.  'filled': an executed plan is passed over; for any other the
\* call mark_executed(symbol, filled_price) lacks the quantity argument and
\* raises TypeError, which the loop logs.  'canceled' / 'rejected': the
\* plan is reset and the order untracked.
VerifyActiveOrders(statuses) ==
    /\ ex_pc = "idle"
    /\ ex_active # {}
    /\ ex_recon.n < MaxReconciles
    /\ ex_recon' = [n |-> ex_recon.n + 1, statuses |-> statuses]
    /\ LET released == {s \in ex_active : statuses[s] \in {"canceled", "rejected"}}
           store == [plans |-> tp_plans, executed |-> tp_executed]
       IN  /\ tp_plans' = [s \in DOMAIN tp_plans |->
                              IF s \in released THEN reset_execution_status(store, s).plans[s] ELSE tp_plans[s]]
           /\ tp_executed' = tp_executed \ released
           /\ ex_active' = ex_active \ released
    /\ ex_ret' = "none"
    /\ ex_event' = "none"
    /\ UNCHANGED <<fs, ps_event, ps_saved, ex_pc, ex_cfg, ex_cur, ex_calls, ex_open, vfVars>>

InitExec == InitExecution /\ SzOff /\ RmOff /\ TmOff /\ BoOff /\ CyOff /\ AuxOff

NextExec ==
    \/ (\E symbol \in PsSymbols, outcome \in PersistOutcomes : ExecutePlanSafely(symbol, outcome))
          /\ UNCHANGED <<szVars, rmVars, tmVars, boVars, cyVars, auxVars>>
    \/ (\E result \in {"accepted", "rejected", "raise"} : SafelySubmitReturn(result))
          /\ UNCHANGED <<szVars, rmVars, tmVars, boVars, cyVars, auxVars>>
    \/ SafelyVerifyStep /\ UNCHANGED <<szVars, rmVars, tmVars, boVars, cyVars, auxVars>>
    \/ SafelyVerifyReturn /\ UNCHANGED <<szVars, rmVars, tmVars, boVars, cyVars, auxVars>>
    \/ (\E result \in {"price", "none", "raise"}, outcome \in PersistOutcomes : ExecutionPriceReturn(result, outcome))
          /\ UNCHANGED <<szVars, rmVars, tmVars, boVars, cyVars, auxVars>>
    \/ (\E ok \in BOOLEAN, outcome \in SaveOutcomes : CancelReturn(ok, outcome))
          /\ UNCHANGED <<szVars, rmVars, tmVars, boVars, cyVars, auxVars>>
    \/ (\E statuses \in [ex_active -> OrderStatuses] : VerifyActiveOrders(statuses))
          /\ UNCHANGED <<szVars, rmVars, tmVars, boVars, cyVars, auxVars>>

SpecExec == InitExec /\ [][NextExec]_vars

\* C12: when verification of an accepted submission ends without a fill,
\* the execution has attempted to cancel the order before it returns.
C12_TimeoutCancelsOrder ==
    [][ex_event' = "verification_timeout" /\ ex_event # "verification_timeout" => ex_calls'.cancel > ex_calls.cancel]_vars

\* C15: a reconciliation step that observes 'filled' for a tracked order
\* leaves it untracked with its plan executed and the plan file written;
\* one that observes 'canceled' or 'rejected' leaves it untracked with its
\* plan active.
C15_ReconcileReleases ==
    [][ex_recon'.n # ex_recon.n =>
          \A s \in DOMAIN ex_recon'.statuses :
             /\ ex_recon'.statuses[s] = "filled" =>
                   /\ s \notin ex_active'
                   /\ s \in tp_executed'
                   /\ fs'.path = CompleteFile(json_dump(tp_plans'))
             /\ ex_recon'.statuses[s] \in {"canceled", "rejected"} =>
                   /\ s \notin ex_active'
                   /\ s \in get_active_plans(tp_plans', tp_executed')]_vars

\* C16: when the plan file could not be written after a confirmed fill, the
\* plan is still executed in memory, and not active, once the execution
\* has returned.
C16_FillSurvivesFailedWrite ==
    (ex_event = "persistence_failed_after_fill" /\ ex_pc = "idle") =>
        /\ ex_cur.symbol \in tp_executed
        /\ ex_cur.symbol \notin get_active_plans(tp_plans, tp_executed)

C22_BreachIffLoss ==
    [][\A p \in Periods, av \in AccountValues \ {0} :
          (IsLimitBreachedCall(p, av) /\ ~period_data[p].breached) =>
              LET loss == period_data[p].pnl < 0
                          /\ Abs(period_data[p].pnl) * 100 >= limits(p) * av
              IN /\ rm_ret'.result = (IF loss THEN "true" ELSE "false")
                 /\ period_data'[p].breached = loss]_vars

\* C22 witness: a first call on a window returned true on a loss at the
\* limit or beyond and set the flag, while another window holding the same
\* loss below its own limit is still clear.
C22_Witness ==
    /\ rm_ret.result = "true" /\ ~rm_ret.after_true
    /\ period_data[rm_ret.period].breached
    /\ period_data[rm_ret.period].pnl < 0
    /\ \E q \in Periods : ~period_data[q].breached /\ period_data[q].pnl = period_data[rm_ret.period].pnl

\* C23: an update_pnl made on a date other than the daily window's last
\* reset date, at a time after the market close, resets the daily window
\* before adding the amount: the daily PnL is then the amount alone and the
\* daily breach flag is clear.
C23_DailyRollover ==
    [][\A a \in PnlAmounts :
          (/\ UpdatePnl(a)
           /\ period_data["daily"].last_reset.is_date
           /\ now.day # period_data["daily"].last_reset.day
           /\ now.late) =>
              /\ period_data'["daily"].pnl = a
              /\ ~period_data'["daily"].breached]_vars

\* ------------------------------------------- RiskMonitor, its client API
\* The operations a client of a RiskMonitor can invoke, in any order, as the
\* clock advances.
\* RiskMonitor.get_pnl(period)
GetPnl(period) ==
    /\ rm_op' = "get_pnl"
    /\ UNCHANGED rmVars

\* The method RiskMonitor.get_risk_report(): its first statement reads
\* self._get_account_value, which a RiskMonitor does not have, and raises
\* AttributeError.
GetRiskReportMethod ==
    /\ rm_op' = "get_risk_report_raise"
    /\ UNCHANGED rmVars

\* The module-level get_risk_report(self, account_value), applied to the monitor.
GetRiskReport(account_value) ==
    /\ rm_op' = "get_risk_report"
    /\ UNCHANGED rmVars

\* A client's reads of the monitor.
ReadRiskMonitor ==
    \/ \E p \in Periods, av \in AccountValues :
          IsLimitBreached(p, av) /\ rm_op' = "is_limit_breached" /\ UNCHANGED <<rm_ret, rm_seen>>
    \/ \E p \in Periods : GetPnl(p)
    \/ GetRiskReportMethod
    \/ \E av \in AccountValues : GetRiskReport(av)

InitRiskApi ==
    /\ InitRiskMonitor /\ rm_op = "none"
    /\ SzOff /\ TmOff /\ BoOff /\ CyOff /\ VfOff /\ PsOff /\ ExOff /\ PxOff /\ BkOff /\ SdOff /\ ClOff

NextRiskApi ==
    \/ (\E a \in PnlAmounts : UpdatePnl(a)) /\ rm_op' = "update_pnl" /\ UNCHANGED <<szVars, tmVars, boVars, cyVars, vfVars, psVars, exVars, pxVars, bkVars, sdVars, clVars>>
    \/ ReadRiskMonitor /\ UNCHANGED <<szVars, tmVars, boVars, cyVars, vfVars, psVars, exVars, pxVars, bkVars, sdVars, clVars>>
    \/ Tick /\ UNCHANGED <<szVars, tmVars, boVars, cyVars, vfVars, psVars, exVars, pxVars, bkVars, sdVars, clVars, rm_op>>

SpecRiskApi == InitRiskApi /\ [][NextRiskApi]_vars

\* The boundary test of _check_resets under which it resets the window.
WindowDue(pd, period, dt) ==
    CASE period = "daily" -> daily_due(pd, dt) /\ is_after_close(dt)
      [] period = "weekly" -> weekly_due(pd, dt)
      [] period = "monthly" -> monthly_due(pd, dt)

\* C24: a read of the monitor (is_limit_breached, get_pnl, either risk
\* report) leaves every window's PnL and last_reset as they were and never
\* changes a breach flag from true to false; and whatever the operation, a
\* window's flag is cleared or its last_reset moved only in a state where
\* that window's boundary test holds.
C24_ReadsNeverReset ==
    [][/\ ReadRiskMonitor =>
            \A p \in Periods :
               /\ period_data'[p].pnl = period_data[p].pnl
               /\ period_data'[p].last_reset = period_data[p].last_reset
               /\ period_data[p].breached => period_data'[p].breached
       /\ \A p \in Periods :
            ((period_data[p].breached /\ ~period_data'[p].breached)
               \/ period_data'[p].last_reset # period_data[p].last_reset)
            => WindowDue(period_data, p, now)]_vars

\* C24 witness: each kind of read was made on a monitor holding a breached
\* window with a loss, possibly after the boundary of another window was crossed.
C24_Witness ==
    /\ rm_op \in {"is_limit_breached", "get_pnl", "get_risk_report"}
    /\ \E p \in Periods : period_data[p].breached /\ period_data[p].pnl < 0
    /\ \E q \in Periods : ~period_data[q].breached /\ period_data[q].pnl < 0

\* ------------------------------------------------- price aggregation
\* core/pricing/service.py (MultiProviderPriceService) and
\* core/price_services/composite_price_service.py (CompositePriceService).
\* Prices are whole numbers of cents.
MaxQuote == 3

MaxTicks == 3

Quotes == 1 .. MaxQuote

Opt(S) == {<<>>} \cup {<<v>> : v \in S}

SeqsUpTo(S, n) == UNION {[1 .. k -> S] : k \in 0 .. n}

\* t.bid is not None and t.ask is not None
has_depth(t) == t.bid # <<>> /\ t.ask # <<>>

\* lambda x: x.ask - x.bid
spread(t) == t.ask[1] - t.bid[1]

\* min(ticks_with_depth, key=spread) over ts[i..]: the first tick of least key.
RECURSIVE min_spread_from(_, _, _)
min_spread_from(ts, i, best) ==
    IF i > Len(ts) THEN best
    ELSE min_spread_from(ts, i + 1, IF spread(ts[i]) < spread(best) THEN ts[i] ELSE best)

\* max(ticks, key=price) over ts[i..]: the first tick of greatest key.
RECURSIVE max_price_from(_, _, _)
max_price_from(ts, i, best) ==
    IF i > Len(ts) THEN best
    ELSE max_price_from(ts, i + 1, IF ts[i].price[1] > best.price[1] THEN ts[i] ELSE best)

\* Variant of _select_best_price that ignores market depth.
select_best_price_by_price(ticks) ==
    IF Len(ticks) = 0 THEN [k |-> "raise", tick |-> NoTick]
    ELSE IF Len(ticks) >= 2 /\ \E i \in 1 .. Len(ticks) : ticks[i].price = <<>>
         THEN [k |-> "raise", tick |-> NoTick]
         ELSE [k |-> "tick", tick |-> max_price_from(ticks, 2, ticks[1])]

\* MultiProviderPriceService._select_best_price.  max() of an empty list
\* raises ValueError; max() over two or more ticks compares their prices,
\* and comparing None with a number raises TypeError.
select_best_price(ticks) ==
    LET ticks_with_depth == SelectSeq(ticks, has_depth)
    IN IF Len(ticks_with_depth) > 0
       THEN [k |-> "tick", tick |-> min_spread_from(ticks_with_depth, 2, ticks_with_depth[1])]
       ELSE IF Len(ticks) = 0 THEN [k |-> "raise", tick |-> NoTick]
       ELSE IF Len(ticks) >= 2 /\ \E i \in 1 .. Len(ticks) : ticks[i].price = <<>>
            THEN [k |-> "raise", tick |-> NoTick]
            ELSE [k |-> "tick", tick |-> max_price_from(ticks, 2, ticks[1])]

\* What a provider's get_price coroutine ends with, as asyncio.gather hands
\* it over: an exception, None, a number, or a dict with optional keys.
Raised == [k |-> "raise", v |-> 0, last |-> <<>>, bid |-> <<>>, ask |-> <<>>]

Empty == [k |-> "None", v |-> 0, last |-> <<>>, bid |-> <<>>, ask |-> <<>>]

Price(q) == [k |-> "num", v |-> q, last |-> <<>>, bid |-> <<>>, ask |-> <<>>]

Snapshot(last, bid, ask) == [k |-> "dict", v |-> 0, last |-> last, bid |-> bid, ask |-> ask]

\* get_price_with_depth, the body of its loop for one provider: "skip" for
\* an exception result, a tick, or "raise" when result['last'] fails (on
\* None, on a number, on a dict without 'last').
normalize(name, result) ==
    IF result.k = "raise" THEN [k |-> "skip", tick |-> NoTick]
    ELSE IF name = "ibkr"
         THEN IF result.k = "dict" /\ result.last # <<>>
              THEN [k |-> "tick", tick |-> [price |-> result.last, bid |-> result.bid,
                                            ask |-> result.ask, provider |-> name]]
              ELSE [k |-> "raise", tick |-> NoTick]
         ELSE [k |-> "tick", tick |-> [price |-> IF result.k = "num" THEN <<result.v>> ELSE <<>>,
                                       bid |-> <<>>, ask |-> <<>>, provider |-> name]]

\* price_ticks as the loop leaves it.
price_ticks(providers) ==
    LET all == [i \in 1 .. Len(providers) |-> normalize(providers[i].name, providers[i].result)]
        IsTick(n) == n.k = "tick"
        kept == SelectSeq(all, IsTick)
    IN [i \in 1 .. Len(kept) |-> kept[i].tick]

\* MultiProviderPriceService.get_price_with_depth, its return value.
get_price_with_depth(providers) ==
    IF \E i \in 1 .. Len(providers) : normalize(providers[i].name, providers[i].result).k = "raise"
    THEN [k |-> "raise", tick |-> NoTick]
    ELSE IF Len(price_ticks(providers)) = 0 THEN [k |-> "None", tick |-> NoTick]
    ELSE select_best_price(price_ticks(providers))

\* MultiProviderPriceService.get_price: price_tick.price if price_tick else None
get_price(providers) ==
    LET price_tick == get_price_with_depth(providers)
    IN IF price_tick.k = "tick"
       THEN IF price_tick.tick.price = <<>> THEN [k |-> "None", tick |-> NoTick]
            ELSE [k |-> "price", tick |-> [NoTick EXCEPT !.price = price_tick.tick.price]]
       ELSE price_tick

\* sorted(prices)
RECURSIVE Insert(_, _)
Insert(x, s) ==
    IF s = <<>> THEN <<x>>
    ELSE IF x <= Head(s) THEN <<x>> \o s
    ELSE <<Head(s)>> \o Insert(x, Tail(s))

RECURSIVE sorted(_)
sorted(s) == IF s = <<>> THEN <<>> ELSE Insert(Head(s), sorted(Tail(s)))

\* CompositePriceService.get_price, from the gathered results of the
\* services whose rate limit admitted a call.
composite_get_price(results) ==
    LET IsPrice(r) == r.k = "num" /\ r.v > 0
        kept == SelectSeq(results, IsPrice)
        prices == [i \in 1 .. Len(kept) |-> kept[i].v]
    IN IF Len(prices) = 0 THEN [k |-> "None", tick |-> NoTick]
       ELSE IF Len(prices) = 1 THEN [k |-> "price", tick |-> [NoTick EXCEPT !.price = <<prices[1]>>]]
       ELSE [k |-> "price", tick |-> [NoTick EXCEPT !.price = <<sorted(prices)[(Len(prices) \div 2) + 1]>>]]

\* The PriceTicks a caller may hand to _select_best_price: price-only ticks,
\* ticks with a bid alone, and ticks with bid <= ask whose last price is
\* either of the two.
PriceTicks ==
    {[price |-> <<q>>, bid |-> b, ask |-> <<>>, provider |-> "x"] : q \in Quotes, b \in {<<>>, <<1>>}}
    \cup {[price |-> <<x[3]>>, bid |-> <<x[1]>>, ask |-> <<x[2]>>, provider |-> "x"] :
            x \in {y \in Quotes \X Quotes \X Quotes : y[1] <= y[2] /\ y[3] \in {y[1], y[2]}}}

ProviderNames == {"ibkr", "questrade", "finnhub"}

\* Outcomes of get_price: of the provider named 'ibkr', and of any other.
IbkrResults ==
    {Raised, Empty} \cup {Price(q) : q \in Quotes}
    \cup {Snapshot(l, b, a) : l \in Opt(Quotes), b \in {<<>>, <<1>>}, a \in {<<>>, <<MaxQuote>>}}

PlainResults == {Raised, Empty} \cup {Price(q) : q \in Quotes}

\* self.providers: a dict, so each name at most once, in insertion order.
ProviderLists ==
    {ps \in SeqsUpTo([name : ProviderNames, result : IbkrResults], Cardinality(ProviderNames)) :
        /\ \A i, j \in 1 .. Len(ps) : i # j => ps[i].name # ps[j].name
        /\ \A i \in 1 .. Len(ps) : ps[i].name # "ibkr" => ps[i].result \in PlainResults}

CompositeResults == {Raised, Empty} \cup {Price(q) : q \in 0 .. MaxQuote}

InitPricing ==
    /\ \/ px_ticks \in SeqsUpTo(PriceTicks, MaxTicks) /\ px_providers = <<>> /\ px_results = <<>>
       \/ px_ticks = <<>> /\ px_providers \in ProviderLists /\ px_results = <<>>
       \/ px_ticks = <<>> /\ px_providers = <<>> /\ px_results \in SeqsUpTo(CompositeResults, 3)
    /\ px_fn = "none"
    /\ px_ret = [k |-> "none", tick |-> NoTick]
    /\ latest_prices = <<>>

\* A direct call of _select_best_price(px_ticks).
SelectBestPrice ==
    /\ px_fn = "none" /\ px_providers = <<>> /\ px_results = <<>>
    /\ px_fn' = "select_best_price"
    /\ px_ret' = select_best_price(px_ticks)
    /\ UNCHANGED <<px_ticks, px_providers, px_results, latest_prices>>

\* MultiProviderPriceService.get_price_with_depth(symbol)
GetPriceWithDepth ==
    /\ px_fn = "none" /\ px_ticks = <<>> /\ px_results = <<>>
    /\ px_fn' = "get_price_with_depth"
    /\ px_ret' = get_price_with_depth(px_providers)
    /\ latest_prices' = IF get_price_with_depth(px_providers).k = "tick"
                        THEN <<get_price_with_depth(px_providers).tick>> ELSE latest_prices
    /\ UNCHANGED <<px_ticks, px_providers, px_results>>

\* MultiProviderPriceService.get_price(symbol)
GetPrice ==
    /\ px_fn = "none" /\ px_ticks = <<>> /\ px_results = <<>>
    /\ px_fn' = "get_price"
    /\ px_ret' = get_price(px_providers)
    /\ latest_prices' = IF get_price_with_depth(px_providers).k = "tick"
                        THEN <<get_price_with_depth(px_providers).tick>> ELSE latest_prices
    /\ UNCHANGED <<px_ticks, px_providers, px_results>>

\* CompositePriceService.get_price(symbol)
CompositeGetPrice ==
    /\ px_fn = "none" /\ px_ticks = <<>> /\ px_providers = <<>>
    /\ px_fn' = "composite_get_price"
    /\ px_ret' = composite_get_price(px_results)
    /\ UNCHANGED <<px_ticks, px_providers, px_results, latest_prices>>

InitPrices == InitPricing /\ SzOff /\ RmOff /\ TmOff /\ BoOff /\ CyOff /\ VfOff /\ PsOff /\ ExOff /\ RdOff /\ BkOff /\ SdOff /\ ClOff

NextPrices ==
    \/ SelectBestPrice /\ UNCHANGED <<szVars, rmVars, tmVars, boVars, cyVars, vfVars, psVars, exVars, rdVars, bkVars, sdVars, clVars>>
    \/ GetPriceWithDepth /\ UNCHANGED <<szVars, rmVars, tmVars, boVars, cyVars, vfVars, psVars, exVars, rdVars, bkVars, sdVars, clVars>>
    \/ GetPrice /\ UNCHANGED <<szVars, rmVars, tmVars, boVars, cyVars, vfVars, psVars, exVars, rdVars, bkVars, sdVars, clVars>>
    \/ CompositeGetPrice /\ UNCHANGED <<szVars, rmVars, tmVars, boVars, cyVars, vfVars, psVars, exVars, rdVars, bkVars, sdVars, clVars>>

SpecPrices == InitPrices /\ [][NextPrices]_vars

\* The ticks of px_ticks that carry both bid and ask; those that carry a price alone.
PxDepth == {i \in 1 .. Len(px_ticks) : has_depth(px_ticks[i])}

PxPriceOnly == {i \in 1 .. Len(px_ticks) : px_ticks[i].bid = <<>> /\ px_ticks[i].ask = <<>>}

\* C25: when at least two of the ticks carry both bid and ask,
\* _select_best_price returns one of them whose ask - bid is the least among
\* them, whatever the order of the list and whatever price-only ticks it holds.
C25_TightestSpread ==
    (px_fn = "select_best_price" /\ Cardinality(PxDepth) >= 2) =>
        /\ px_ret.k = "tick"
        /\ \E i \in PxDepth : px_ret.tick = px_ticks[i]
        /\ \A i \in PxDepth : spread(px_ret.tick) <= spread(px_ticks[i])

\* C25 witness: the list holds a wide-spread tick first, then a price-only
\* tick of the highest price, then a tight-spread tick, and the tight one
\* was returned.
C25_Witness ==
    /\ px_fn = "select_best_price" /\ Len(px_ticks) = 3
    /\ has_depth(px_ticks[1]) /\ ~has_depth(px_ticks[2]) /\ has_depth(px_ticks[3])
    /\ spread(px_ticks[3]) < spread(px_ticks[1])
    /\ px_ticks[2].price[1] > px_ticks[3].price[1]
    /\ px_ticks[1].price[1] > px_ticks[3].price[1]
    /\ px_ret.k = "tick" /\ px_ret.tick = px_ticks[3]

\* The median of a non-empty list of numbers, the lower of the two middle
\* values when their number is even.
LowerMedian(s) == sorted(s)[(Len(s) + 1) \div 2]

\* The prices of the price-only ticks of px_ticks, and the usable prices
\* among px_results, in list order.
PxPriceOnlyPrices ==
    LET IsPriceOnly(t) == t.bid = <<>> /\ t.ask = <<>>
        kept == SelectSeq(px_ticks, IsPriceOnly)
    IN [i \in 1 .. Len(kept) |-> kept[i].price[1]]

PxCompositePrices ==
    LET IsPrice(r) == r.k = "num" /\ r.v > 0
        kept == SelectSeq(px_results, IsPrice)
    IN [i \in 1 .. Len(kept) |-> kept[i].v]

\* C26: when fewer than two ticks carry bid and ask and at least two are
\* price-only, _select_best_price returns the median of the price-only
\* prices, the lower middle value for an even number; and
\* CompositePriceService.get_price returns the same median of two or more
\* delivered prices.
C26_MedianWithoutDepth ==
    /\ (px_fn = "select_best_price" /\ Cardinality(PxDepth) < 2 /\ Cardinality(PxPriceOnly) >= 2) =>
          (px_ret.k = "tick" /\ px_ret.tick.price = <<LowerMedian(PxPriceOnlyPrices)>>)
    /\ (px_fn = "composite_get_price" /\ Len(PxCompositePrices) >= 2) =>
          (px_ret.k = "price" /\ px_ret.tick.price = <<LowerMedian(PxCompositePrices)>>)

\* The providers of px_providers whose get_price delivered a price.
PxDelivered ==
    {i \in 1 .. Len(px_providers) :
        \/ px_providers[i].result.k = "num"
        \/ px_providers[i].result.k = "dict" /\ px_providers[i].result.last # <<>>}

\* C27: get_price returns without raising whatever each provider's
\* get_price ended with (a price, an exception, None): it returns None
\* exactly when no provider delivered a price, and otherwise the price one
\* of the delivering providers gave.
C27_GetPriceNeverRaises ==
    px_fn = "get_price" =>
        /\ px_ret.k \in {"None", "price"}
        /\ px_ret.k = "None" <=> PxDelivered = {}
        /\ px_ret.k = "price" =>
              \E i \in PxDelivered :
                 px_ret.tick.price = (IF px_providers[i].result.k = "num"
                                      THEN <<px_providers[i].result.v>>
                                      ELSE px_providers[i].result.last)

\* The positions of the run loop inside the for loop of _process_plans.
CyInLoop == {"plans", "get_price", "submit_bracket_order"}

\* C28: a plan whose quote, sizing, submission or recording fails takes
\* only itself off the cycle's list: inside the for loop every step keeps
\* the plans not yet visited or drops the one just handled, the loop is left
\* only when no plan remains, and it is left for the run loop with the
\* capital lock released, so that the next cycle can start.
C28_FailureIsolated ==
    [][/\ (cy_pc \in CyInLoop /\ cy_todo # <<>>) =>
            (cy_pc' \in CyInLoop /\ cy_todo' \in {cy_todo, Tail(cy_todo)})
       /\ (cy_pc \in CyInLoop /\ cy_pc' \notin CyInLoop) =>
            (cy_todo = <<>> /\ cy_pc' = "run" /\ ~capital_lock')]_vars

\* C28 witness: in the first cycle recording plan 1 (AAA) raised, leaving
\* its positions row without quantity and the plan unexecuted; plan 2 (BBB)
\* was then admitted, and plan 3 is next.
C28_Witness ==
    /\ cy_cycles = 0 /\ cy_pc = "plans"
    /\ cy_todo # <<>> /\ Head(cy_todo) = 3
    /\ 1 \notin executed_trades /\ 2 \in executed_trades
    /\ cy_event.plan = 2
    /\ \E r \in positions : r.symbol = "AAA" /\ r.quantity <= 0

\* ------------------------------------------- orders.BracketOrder
\* core/orders/bracket.py and OrderExecutor.execute_bracket
\* (core/trading/executor.py).
MaxShares == 2

\* BracketOrder.validate
validate(b) ==
    IF b.quantity > 0
    THEN b.take_profit_price > b.entry_price /\ b.entry_price > b.stop_loss_price
    ELSE b.take_profit_price < b.entry_price /\ b.entry_price < b.stop_loss_price

\* BracketOrder.to_order_requests, for a bracket that validates:
\* entry, take-profit and stop-loss requests.
to_order_requests(b) ==
    << [quantity |-> b.quantity, order_type |-> "limit", price |-> <<b.entry_price>>, stop_price |-> <<>>],
       [quantity |-> 0 - b.quantity, order_type |-> "limit", price |-> <<b.take_profit_price>>, stop_price |-> <<>>],
       [quantity |-> 0 - b.quantity, order_type |-> "stop", price |-> <<>>, stop_price |-> <<b.stop_loss_price>>] >>

\* plan.get('entry', current_price)
plan_entry(plan) == IF plan.entry # <<>> THEN plan.entry ELSE plan.current_price

\* BracketOrder.from_plan, for arguments with which it does not raise.
from_plan(plan) ==
    LET entry == plan_entry(plan)[1]
        stop == plan.stop
        risk == Abs(entry - stop)
        take_profit == IF plan.take_profit # <<>> THEN plan.take_profit[1]
                       ELSE IF plan.side = "buy" THEN entry + risk * 2 ELSE entry - risk * 2
    IN [entry_price |-> entry, take_profit_price |-> take_profit, stop_loss_price |-> stop,
        quantity |-> 0, side |-> plan.side]

\* The plan dicts and current prices from_plan is called with; side is the
\* plan's 'side' in lower case.
BracketPlans ==
    [side : {"buy", "sell"}, entry : Opt(1 .. MaxPrice), stop : 1 .. MaxPrice,
     take_profit : Opt(0 .. MaxPrice + 1), current_price : Opt({2})]

InitOrdersBracket ==
    /\ bk_plan \in BracketPlans
    /\ bk = NoBracket
    /\ bk_pc = "plan"
    /\ bk_ret = [k |-> "none", orders |-> <<>>]

\* BracketOrder.from_plan(plan, current_price); ValueError when there is
\* neither an entry nor a current price.
FromPlan ==
    /\ bk_pc = "plan"
    /\ IF plan_entry(bk_plan) = <<>>
       THEN bk_pc' = "raised" /\ UNCHANGED bk
       ELSE bk_pc' = "built" /\ bk' = from_plan(bk_plan)
    /\ UNCHANGED <<bk_plan, bk_ret>>

\* bracket.quantity = <a positive number of shares>
SizeBracket(quantity) ==
    /\ bk_pc = "built"
    /\ bk' = [bk EXCEPT !.quantity = quantity]
    /\ bk_pc' = "sized"
    /\ UNCHANGED <<bk_plan, bk_ret>>

\* OrderExecutor.execute_bracket(bracket): ValueError unless the bracket
\* validates, else one broker.submit_order call per order request.
ExecuteBracket ==
    /\ bk_pc = "sized"
    /\ bk_ret' = IF validate(bk) THEN [k |-> "orders", orders |-> to_order_requests(bk)]
                 ELSE [k |-> "raise", orders |-> <<>>]
    /\ bk_pc' = "done"
    /\ UNCHANGED <<bk_plan, bk>>

InitOrders == InitOrdersBracket /\ SzOff /\ RmOff /\ TmOff /\ BoOff /\ CyOff /\ VfOff /\ PsOff /\ ExOff /\ RdOff /\ PxOff /\ SdOff /\ ClOff

NextOrders ==
    \/ FromPlan /\ UNCHANGED <<szVars, rmVars, tmVars, boVars, cyVars, vfVars, psVars, exVars, rdVars, pxVars, sdVars, clVars>>
    \/ (\E q \in 1 .. MaxShares : SizeBracket(q)) /\ UNCHANGED <<szVars, rmVars, tmVars, boVars, cyVars, vfVars, psVars, exVars, rdVars, pxVars, sdVars, clVars>>
    \/ ExecuteBracket /\ UNCHANGED <<szVars, rmVars, tmVars, boVars, cyVars, vfVars, psVars, exVars, rdVars, pxVars, sdVars, clVars>>

SpecOrders == InitOrders /\ [][NextOrders]_vars

\* C29: a bracket built by from_plan and sized with a positive quantity is
\* accepted by execute_bracket (orders are submitted for it) exactly when
\* take_profit > entry > stop_loss for a buy bracket and
\* take_profit < entry < stop_loss for a sell bracket.
C29_ValidationFollowsSide ==
    bk_pc = "done" =>
        (bk_ret.k = "orders" <=>
            IF bk.side = "buy"
            THEN bk.take_profit_price > bk.entry_price /\ bk.entry_price > bk.stop_loss_price
            ELSE bk.take_profit_price < bk.entry_price /\ bk.entry_price < bk.stop_loss_price)

\* ------------------------------------------------- the two run loops
\* TradingManager.run of core/trading/manager.py and of
\* core/trading_manager.py, as asyncio tasks.  Neither loop tests a flag or
\* an event; the one way to stop either is to cancel its task, and a
\* cancellation reaches a task only where it is suspended in an await (or
\* before it first runs), as CancelledError, which no "except Exception"
\* of these modules catches.
MaxRunCycles == 3

\* Where each task can be suspended in an await.
SdSuspended ==
    {"asyncio.sleep(60)", "_process_plans", "asyncio.sleep(5)", "_monitor_prices", "_execute_orders"}

InitRunLoops ==
    /\ sd_loop \in {"trading.manager", "trading_manager"}
    /\ sd_pc = "start"
    /\ sd_cancel = FALSE
    /\ sd_cycles = 0
    /\ sd_yields = 0

\* Someone requests the cancellation of the task.
RequestCancel ==
    /\ sd_pc # "stopped"
    /\ ~sd_cancel
    /\ sd_cancel' = TRUE
    /\ UNCHANGED <<sd_loop, sd_pc, sd_cycles, sd_yields>>

\* The event loop resumes a cancelled task with CancelledError, which ends run().
Cancelled ==
    /\ sd_cancel
    /\ sd_pc \in SdSuspended \cup {"start"}
    /\ sd_pc' = "stopped"
    /\ UNCHANGED <<sd_loop, sd_cancel, sd_cycles, sd_yields>>

\* core/trading/manager.py run: the task starts, or wakes from a sleep, and
\* runs one pass up to its next suspension: asyncio.sleep(60) when
\* _should_trade() is false; otherwise verify_active_orders (no order is
\* tracked, so it does not suspend) and _process_plans, inside which it is
\* suspended at a broker or price call, or which runs through to asyncio.sleep(5).
ManagerRunPass(should_trade, suspends) ==
    /\ sd_loop = "trading.manager"
    /\ sd_pc \in {"start", "asyncio.sleep(60)", "asyncio.sleep(5)"}
    /\ ~sd_cancel
    /\ sd_cycles < MaxRunCycles
    /\ sd_cycles' = sd_cycles + 1
    /\ sd_pc' = IF ~should_trade THEN "asyncio.sleep(60)"
                ELSE IF suspends THEN "_process_plans" ELSE "asyncio.sleep(5)"
    /\ sd_yields' = sd_yields + (IF sd_pc' \in SdSuspended THEN 1 ELSE 0)
    /\ UNCHANGED <<sd_loop, sd_cancel>>

\* _process_plans is resumed, returns, and run awaits asyncio.sleep(5).
ManagerProcessPlansReturn ==
    /\ sd_loop = "trading.manager"
    /\ sd_pc = "_process_plans"
    /\ ~sd_cancel
    /\ sd_pc' = "asyncio.sleep(5)"
    /\ sd_yields' = sd_yields + (IF sd_pc' \in SdSuspended THEN 1 ELSE 0)
    /\ UNCHANGED <<sd_loop, sd_cancel, sd_cycles>>

\* core/trading_manager.py run: the task starts, or time.sleep returns, and
\* the next pass begins whatever was requested meanwhile: time.sleep(60)
\* blocks the thread when _pre_trade_checks() is false; otherwise the task
\* is suspended inside _monitor_prices or _execute_orders, or runs through
\* both to time.sleep(5).
TmRunPass(checks_ok, at) ==
    /\ sd_loop = "trading_manager"
    /\ \/ sd_pc = "start" /\ ~sd_cancel
       \/ sd_pc \in {"time.sleep(60)", "time.sleep(5)"}
    /\ sd_cycles < MaxRunCycles
    /\ sd_cycles' = sd_cycles + 1
    /\ sd_pc' = IF ~checks_ok THEN "time.sleep(60)" ELSE at
    /\ sd_yields' = sd_yields + (IF sd_pc' \in SdSuspended THEN 1 ELSE 0)
    /\ UNCHANGED <<sd_loop, sd_cancel>>

\* _monitor_prices is resumed and returns; _execute_orders suspends or runs
\* through to _manage_positions and time.sleep(5).
TmMonitorPricesReturn(at) ==
    /\ sd_loop = "trading_manager"
    /\ sd_pc = "_monitor_prices"
    /\ ~sd_cancel
    /\ sd_pc' = at
    /\ sd_yields' = sd_yields + (IF sd_pc' \in SdSuspended THEN 1 ELSE 0)
    /\ UNCHANGED <<sd_loop, sd_cancel, sd_cycles>>

\* _execute_orders is resumed and returns; _manage_positions; time.sleep(5).
TmExecuteOrdersReturn ==
    /\ sd_loop = "trading_manager"
    /\ sd_pc = "_execute_orders"
    /\ ~sd_cancel
    /\ sd_pc' = "time.sleep(5)"
    /\ sd_yields' = sd_yields + (IF sd_pc' \in SdSuspended THEN 1 ELSE 0)
    /\ UNCHANGED <<sd_loop, sd_cancel, sd_cycles>>

InitShutdown ==
    /\ InitRunLoops
    /\ SzOff /\ RmOff /\ TmOff /\ BoOff /\ CyOff /\ VfOff /\ PsOff /\ ExOff /\ RdOff /\ PxOff /\ BkOff /\ ClOff

NextShutdown ==
    \/ RequestCancel /\ UNCHANGED <<szVars, rmVars, tmVars, boVars, cyVars, vfVars, psVars, exVars, rdVars, pxVars, bkVars, clVars>>
    \/ Cancelled /\ UNCHANGED <<szVars, rmVars, tmVars, boVars, cyVars, vfVars, psVars, exVars, rdVars, pxVars, bkVars, clVars>>
    \/ (\E t \in BOOLEAN, u \in BOOLEAN : ManagerRunPass(t, u)) /\ UNCHANGED <<szVars, rmVars, tmVars, boVars, cyVars, vfVars, psVars, exVars, rdVars, pxVars, bkVars, clVars>>
    \/ ManagerProcessPlansReturn /\ UNCHANGED <<szVars, rmVars, tmVars, boVars, cyVars, vfVars, psVars, exVars, rdVars, pxVars, bkVars, clVars>>
    \/ (\E c \in BOOLEAN, at \in {"_monitor_prices", "_execute_orders", "time.sleep(5)"} : TmRunPass(c, at)) /\ UNCHANGED <<szVars, rmVars, tmVars, boVars, cyVars, vfVars, psVars, exVars, rdVars, pxVars, bkVars, clVars>>
    \/ (\E at \in {"_execute_orders", "time.sleep(5)"} : TmMonitorPricesReturn(at)) /\ UNCHANGED <<szVars, rmVars, tmVars, boVars, cyVars, vfVars, psVars, exVars, rdVars, pxVars, bkVars, clVars>>
    \/ TmExecuteOrdersReturn /\ UNCHANGED <<szVars, rmVars, tmVars, boVars, cyVars, vfVars, psVars, exVars, rdVars, pxVars, bkVars, clVars>>

SpecShutdown == InitShutdown /\ [][NextShutdown]_vars

\* C30: once the cancellation of a run loop has been requested, the loop
\* starts no further pass.
C30_StopsBeforeNextCycle ==
    [][~(sd_cancel /\ sd_cycles' > sd_cycles)]_vars

\* C31: update_pnl always completes: no call is left blocked for ever on
\* the monitor's own lock, whatever boundary has been crossed since the
\* last reset.
C31_UpdatePnlCompletes == rm_lock # "deadlocked"

\* C32: the engine never submits an order for a symbol while an earlier
\* order for that symbol is open at the broker (accepted and neither
\* filled, cancelled nor rejected), so the broker holds at most one open
\* entry order per plan symbol.
C32_OneOpenOrderPerSymbol ==
    [][ex_calls'.submit > ex_calls.submit => ex_open[ex_cur'.symbol] = 0]_vars

\* The quantity the positions table records for a symbol (0 without a row).
PositionQuantity(rows, symbol) ==
    IF \E r \in rows : r.symbol = symbol
    THEN (CHOOSE r \in rows : r.symbol = symbol).quantity
    ELSE 0

C34_PlanStoreConsistent ==
    /\ [](/\ tp_executed \subseteq DOMAIN tp_plans
          /\ \A s \in DOMAIN tp_plans :
                /\ s \in tp_executed <=> tp_plans[s]["executed"] = PyBool(TRUE)
                /\ s \in tp_executed => tp_plans[s]["active"] = PyBool(FALSE)
          /\ get_active_plans(tp_plans, tp_executed) \cap tp_executed = {})
    /\ [][\A price \in PsPrices, quantity \in PsQuantities, t \in PsTimestamps :
            MarkExecuted(UnknownSymbol, price, quantity, t) =>
                /\ ps_event'.kind = "mark_executed_raised"
                /\ UNCHANGED <<tp_plans, tp_executed, fs>>]_vars

\* C34 witness: mark_executed has just raised for an unknown symbol on a
\* store in which one plan is executed and another was executed and reset.
C34_Witness ==
    /\ ps_event.kind = "mark_executed_raised"
    /\ "AAA" \in tp_executed /\ tp_plans["AAA"]["committed_value"] # Absent
    /\ "BBB" \notin tp_executed /\ tp_plans["BBB"]["executed"] = PyBool(FALSE)
    /\ "BBB" \in get_active_plans(tp_plans, tp_executed)

\* C35: reset_execution_status on an executed plan leaves its record as it
\* was before the execution: active, not executed, and with no execution
\* price, quantity, committed value or time stamp left over (each of these
\* keys absent or None).
C35_RollbackRestoresPlan ==
    [][\A s \in PsSymbols :
          (ResetExecutionStatus(s) /\ s \in tp_executed) =>
              /\ s \in get_active_plans(tp_plans', tp_executed')
              /\ ~truthy(tp_plans'[s]["executed"])
              /\ \A key \in {"executed_at", "execution_price", "executed_quantity", "committed_value"} :
                    tp_plans'[s][key] \in {Absent, PyNone}]_vars

\* C36: once the entry-fill event has been delivered to a bracket, however
\* many times, and on_entry_filled is not in progress, exactly one
\* take-profit order has been placed for the bracket.
C36_ExactlyOneTakeProfit ==
    (bo.entry_filled /\ bo_fill_pc = "idle") => bo_broker.take_profit = 1

\* C37: after mark_in_position(s) no order is active and every order for s
\* is in_position; reactivate_eligible_orders() turns active exactly the
\* orders that were inactive and leaves every other order, expired and
\* in_position ones included, as it was; and no step of the manager turns
\* an expired order active.
C37_StatusProtocol ==
    [][/\ \A s \in TmSymbols :
            MarkInPosition(s) =>
                \A i \in 1 .. Len(orders) :
                   /\ orders'[i].status # "active"
                   /\ orders[i].symbol = s => orders'[i].status = "in_position"
       /\ ReactivateEligibleOrders =>
            \A i \in 1 .. Len(orders) :
               IF orders[i].status = "inactive"
               THEN orders'[i].status = "active"
               ELSE orders'[i] = orders[i]
       /\ \A i \in 1 .. Len(orders) :
            orders[i].status = "expired" => orders'[i].status # "active"]_vars

\* C37 witness: BBB's order had expired when the cycle began; then
\* mark_in_position("BBB") and reactivate_eligible_orders() ran: BBB is
\* in_position and the AAA orders, inactive in between, are active again.
C37_Witness ==
    /\ "BBB" \in tm_stale
    /\ orders[2].status = "in_position"
    /\ orders[1].status = "active" /\ orders[3].status = "active"

\* ------------------------------ trading_manager: closing before the close
\* core/trading_manager.py _pre_trade_checks with the session clock of
\* core/utils/trading_hours.py.  One trading session is in progress; time
\* is counted in minutes until its end.
MaxRemaining == 7

\* config.env.CLOSE_TRADES_BUFFER_MINUTES
CLOSE_TRADES_BUFFER_MINUTES == 5

\* TradingHours.is_market_open: start <= now < end for the session.
is_market_open(remaining) == remaining > 0

\* TradingHours.get_current_session: the session that contains now
\* (<<remaining minutes>>), or None (<<>>).
get_current_session(remaining) == IF remaining > 0 THEN <<remaining>> ELSE <<>>

\* TradingManager._should_close_positions(session): the session is within
\* the buffer of its end, or the daily loss has used 80% of its limit.
should_close_positions(session, pd) ==
    \/ session[1] <= CLOSE_TRADES_BUFFER_MINUTES
    \/ /\ pd["daily"].pnl < 0
       /\ Abs(pd["daily"].pnl) * 1000 >= 8 * AccountValue * limits("daily")

\* TradingManager._pre_trade_checks at a time of the session clock.  The
\* closing test is reached only after is_market_open() returned False.
SessionPreTradeChecks ==
    /\ tm_pc = "gate"
    /\ IF ~is_market_open(cl_remaining)
       THEN LET current_session == get_current_session(cl_remaining)
            IN  /\ active_positions' =
                      IF current_session # <<>> /\ should_close_positions(current_session, period_data)
                      THEN {} ELSE active_positions
                /\ tm_gate' = "closed"
                /\ UNCHANGED <<tm_pc, period_data>>
       ELSE LET r == pre_trade_risk(period_data, 1)
            IN  /\ period_data' = r.pd
                /\ tm_gate' = IF r.ok THEN "pass" ELSE "breach"
                /\ tm_pc' = IF r.ok THEN "monitor" ELSE "gate"
                /\ UNCHANGED active_positions
    /\ UNCHANGED <<market_open, orders, tm_todo, tm_event, tm_stale>>
    /\ UNCHANGED <<now, rm_lock, rm_ret, rm_seen, cl_remaining>>

\* A minute of the session passes; with the last one the session is over.
SessionClock ==
    /\ cl_remaining > 0
    /\ cl_remaining' = cl_remaining - 1
    /\ market_open' = is_market_open(cl_remaining')
    /\ UNCHANGED <<tm_pc, orders, tm_todo, active_positions, tm_gate, tm_event, tm_stale>>

\* TradingManager.__init__ during a session that has up to MaxRemaining minutes left.
InitSessionClose ==
    /\ period_data = InitPeriodData(0)
    /\ now = [day |-> 0, month |-> 0, late |-> FALSE]
    /\ rm_lock = "free"
    /\ rm_ret = [period |-> "daily", result |-> "none", after_true |-> FALSE]
    /\ rm_seen = [p \in Periods |-> FALSE]
    /\ SzOff /\ BoOff /\ CyOff /\ VfOff /\ PsOff /\ ExOff /\ RdOff /\ PxOff /\ BkOff /\ SdOff
    /\ cl_remaining \in 1 .. MaxRemaining
    /\ market_open = is_market_open(cl_remaining)
    /\ tm_pc = "gate"
    /\ orders = TmPlan
    /\ tm_todo = <<>>
    /\ active_positions = {}
    /\ tm_gate = "none"
    /\ tm_event = [kind |-> "none", symbol |-> "", stale |-> FALSE, tick |-> 0]
    /\ tm_stale = {}

NextSessionClose ==
    \/ SessionPreTradeChecks /\ UNCHANGED <<szVars, boVars, cyVars, vfVars, psVars, exVars, rdVars, pxVars, bkVars, sdVars>>
    \/ MonitorPrices /\ UNCHANGED <<szVars, rmVars, boVars, cyVars, vfVars, psVars, exVars, auxVars>>
    \/ ExecuteOrdersBegin /\ UNCHANGED <<szVars, rmVars, boVars, cyVars, vfVars, psVars, exVars, auxVars>>
    \/ (\E q \in TmQuotes, o \in PlaceOutcomes : ExecuteOrder(q, o)) /\ UNCHANGED <<szVars, rmVars, boVars, cyVars, vfVars, psVars, exVars, auxVars>>
    \/ ExecuteOrdersEnd /\ UNCHANGED <<szVars, rmVars, boVars, cyVars, vfVars, psVars, exVars, auxVars>>
    \/ (\E x \in SUBSET active_positions : ManagePositions(x)) /\ UNCHANGED <<szVars, rmVars, boVars, cyVars, vfVars, psVars, exVars, auxVars>>
    \/ (\E a \in PnlAmounts : UpdatePnl(a)) /\ UNCHANGED <<szVars, tmVars, boVars, cyVars, vfVars, psVars, exVars, auxVars>>
    \/ SessionClock /\ UNCHANGED <<szVars, rmVars, boVars, cyVars, vfVars, psVars, exVars, rdVars, pxVars, bkVars, sdVars>>

SpecSessionClose == InitSessionClose /\ [][NextSessionClose]_vars

\* C38: a pre-trade check made while positions are open and the session in
\* progress has no more than the close buffer left closes all positions:
\* active_positions is empty after it.
C38_ClosedBeforeSessionEnd ==
    [][(/\ SessionPreTradeChecks
        /\ active_positions # {}
        /\ cl_remaining > 0
        /\ cl_remaining <= CLOSE_TRADES_BUFFER_MINUTES) => active_positions' = {}]_vars

====
